---- MODULE Spec2Model ----
(***************************************************************************)
(* Model of the fusion-mcp bridge subsystem:                               *)
(*   - Fusion360PluginClient     (src/src/fusion360/client.py)             *)
(*   - MCPCommunicationServer    (src/src/fusion360/addin.py)              *)
(*   - Fusion360Bridge           (src/src/core/bridge.py)                  *)
(*   - ErrorHandler              (src/src/utils/error_handler.py)          *)
(*                                                                         *)
(* Python dictionaries are records whose DOMAIN is the set of keys.        *)
(* Strings built with f-strings are sequences of tokens, so that the       *)
(* substring test `"x" in s` is membership of the token in the sequence.   *)
(* A call that may raise yields an outcome [raised, value].                *)
(***************************************************************************)
EXTENDS Integers, Sequences, FiniteSets, TLC

\* ---------------------------------------------------------------- bounds
MaxConn == 2          \* sockets ever opened by the clients
MaxHistory == 1       \* largest max_history_size of the Bridge's handler
MaxErrors == 3        \* handle_error calls made on the handler itself
MaxCalls == 4         \* handle_error calls made by concurrent threads
MaxFails == 5         \* failures of an operation that succeeds in the end
SmallFrame == 64      \* bytes of a frame that fits one recv

\* ------------------------------------------------------------- constants
RECV_BUFFER == 4096   \* bytes returned at most by one recv

Threads == {1, 2}     \* threads sharing the ErrorHandler
Clients == {1, 2}     \* 1: the Bridge's plugin_client, 2: a second client
BridgeClient == 1

VARIABLES
    \* ---- MCPCommunicationServer (addin.py)
    running,             \* self.running
    server_socket,       \* "none" | "listening" | "unbound" | "closed"
    client_connections,  \* self.client_connections, a list of connection ids
    srvApp,              \* the add-in's global `app` is set
    loop,                \* the accept thread: "none" | "accept" | "exit"
    stopPc,              \* stop(): "idle" | "closing" (sockets of the list
                         \* closed, the listening socket not yet)
    \* ---- the sockets
    conn,                \* [1..MaxConn -> connection record]
    nextConn,            \* next unused connection id
    \* ---- Fusion360PluginClient instances (client.py)
    client,              \* [Clients -> client record]
    \* ---- Fusion360Bridge (bridge.py) and module flags
    PLUGIN_CLIENT_AVAILABLE, FUSION_AVAILABLE, ERROR_HANDLING_AVAILABLE,
    error_handler,       \* TRUE iff get_error_handler() is not None
    use_plugin_mode,
    _mode, _initialized, app, design, plugin_client,
    bridgePc,            \* Bridge operation waiting for its plugin client
    bridgeRet,           \* outcome of the last finished Bridge operation
    \* ---- ErrorHandler (error_handler.py)
    error_history, max_history_size, clock,
    handle_calls,        \* handle_error calls made on the handler itself
                         \* (not through the Bridge), oldest first
    retry,               \* the running retry_with_backoff call
    wrapper,             \* the running call of a function wrapped by
                         \* error_handler_decorator
    handlers,            \* threads inside handle_error on the shared handler
    \* ---- ContextPersistenceManager (context/persistence.py)
    data_history,        \* self.data["history"], the stored list
    historyRet,          \* what get_design_history returned last
    storage_file         \* the history as the JSON file holds it

srvVars    == <<running, server_socket, client_connections, srvApp,
                loop, stopPc>>
netVars    == <<conn, nextConn>>
flagVars   == <<PLUGIN_CLIENT_AVAILABLE, FUSION_AVAILABLE,
                ERROR_HANDLING_AVAILABLE, error_handler, use_plugin_mode>>
bridgeVars == <<_mode, _initialized, app, design, plugin_client,
                bridgePc, bridgeRet>>
errVars    == <<error_history, max_history_size, clock, handle_calls, retry,
                wrapper, handlers>>
ctxVars    == <<data_history, historyRet, storage_file>>
vars == <<srvVars, netVars, client, flagVars, bridgeVars, errVars, ctxVars>>

\* ------------------------------------------------------ values and dicts
None == "<None>"

Ret(v)   == [raised |-> FALSE, value |-> v]
Raise(e) == [raised |-> TRUE,  value |-> e]

\* the value of an "error" key: the flag True or a string
ErrTrue     == [t |-> "bool", s |-> <<>>]
ErrStr(s)   == [t |-> "str",  s |-> s]
Truthy(e)   == e.t = "bool" \/ e.s # <<>>
HasKey(d, k) == k \in DOMAIN d
Contains(s, tok) == \E i \in 1..Len(s) : s[i] = tok

\* {"error": "<text>"}
ErrorDict(s) == [error |-> ErrStr(s)]

NoResult == Ret([none |-> TRUE])

\* ------------------------------------------------------------ the frames
\* sizes in bytes of an encoded frame: one that fits a recv and one that
\* does not
FrameSizes == {SmallFrame, RECV_BUFFER + 1}

Frame(body, size) == [body |-> body, size |-> size]

DispatchTable == {"get_design_info", "get_component_hierarchy",
                  "create_sketch", "create_rectangle", "create_circle",
                  "create_extrude", "get_sketches", "get_features",
                  "draw_line", "draw_arc", "draw_polygon"}

\* command names a caller passes: some of the table, an unknown name, the
\* empty string and None
Commands == {"get_design_info", "create_circle", "does_not_exist", "", None}

\* messages of exceptions raised by the host API or by the runtime
ExcMsgs == {"object is invalid"}

Request(cmd, params, size) ==
    [frame |-> "object", command |-> cmd, params |-> params, size |-> size]

\* a connection: the state of the client's and of the server's socket, the
\* frame travelling each way, the handler thread
NoConn == [cli |-> "none", srv |-> "none", req |-> <<>>, resp |-> <<>>,
           hnd |-> "none"]

\* ------------------------------------------- MCPCommunicationServer.start
\* bind/listen succeed or raise (port in use); the exception is caught
\* (the host calls start and stop from one thread: no start inside a stop)
start(bindOk) ==
    /\ server_socket = "none"
    /\ stopPc = "idle"
    /\ IF bindOk
       THEN /\ server_socket' = "listening"
            /\ running' = TRUE
            /\ loop' = "accept"
       ELSE /\ server_socket' = "unbound"
            /\ UNCHANGED <<running, loop>>
    /\ UNCHANGED <<client_connections, srvApp, stopPc, netVars, client,
                   flagVars, ctxVars, bridgeVars, errVars>>

\* start() on a server that is listening: self.server_socket is bound to a
\* new socket object before bind is tried; the accept thread stays blocked
\* in accept() on the socket that was replaced.  bind on the port in use
\* raises (caught) where SO_REUSEADDR does not allow a second listener, and
\* succeeds where it does (Windows): then a second accept thread runs too.
\*   loop = "accept_replaced": the thread waits on the replaced socket
\*   loop = "accept_both": one thread on the replaced, one on the new socket
start_again(bindOk) ==
    /\ server_socket = "listening"
    /\ loop = "accept"
    /\ stopPc = "idle"
    /\ IF bindOk
       THEN /\ server_socket' = "listening"
            /\ running' = TRUE
            /\ loop' = "accept_both"
       ELSE /\ server_socket' = "unbound"
            /\ loop' = "accept_replaced"
            /\ UNCHANGED running
    /\ UNCHANGED <<client_connections, srvApp, stopPc, netVars, client,
                   flagVars, ctxVars, bridgeVars, errVars>>

\* -------------------------------------------- MCPCommunicationServer.stop
\* the server's fields and the sockets, as stop() reads and leaves them
ServerState == [running |-> running, server_socket |-> server_socket,
                loop |-> loop,
                client_connections |-> client_connections, conn |-> conn]

\* running = False; close every socket of the list; clear the list
StopConnections(st) ==
    [st EXCEPT
        !.running = FALSE,
        !.conn = [c \in DOMAIN st.conn |->
                    IF \E i \in 1..Len(st.client_connections) :
                           st.client_connections[i] = c
                    THEN [st.conn[c] EXCEPT !.srv = "closed", !.req = <<>>]
                    ELSE st.conn[c]],
        !.client_connections = <<>>]

\* if self.server_socket: close it; the connections waiting in its backlog
\* are reset (they keep waiting when a replaced socket still listens)
StopListening(st) ==
    [st EXCEPT
        !.server_socket = IF @ = "none" THEN "none" ELSE "closed",
        !.conn = [c \in DOMAIN st.conn |->
                    IF /\ st.conn[c].srv = "backlog"
                       /\ st.loop \notin {"accept_replaced", "accept_both"}
                    THEN [st.conn[c] EXCEPT !.srv = "closed", !.req = <<>>]
                    ELSE st.conn[c]]]

\* stop() run without another thread of the server in between
stop ==
    /\ stopPc = "idle"
    /\ LET st == StopListening(StopConnections(ServerState))
       IN  /\ running' = st.running
           /\ conn' = st.conn
           /\ client_connections' = st.client_connections
           /\ server_socket' = st.server_socket
    /\ UNCHANGED <<srvApp, loop, stopPc, nextConn, client, flagVars, ctxVars,
                   bridgeVars, errVars>>

\* stop() in two steps, the accept loop and the handlers running in between
stop_begin ==
    /\ stopPc = "idle"
    /\ LET st == StopConnections(ServerState)
       IN  /\ running' = st.running
           /\ conn' = st.conn
           /\ client_connections' = st.client_connections
    /\ stopPc' = "closing"
    /\ UNCHANGED <<server_socket, srvApp, loop, nextConn, client, flagVars, ctxVars,
                   bridgeVars, errVars>>

stop_end ==
    /\ stopPc = "closing"
    /\ LET st == StopListening(ServerState)
       IN  /\ conn' = st.conn
           /\ server_socket' = st.server_socket
    /\ stopPc' = "idle"
    /\ UNCHANGED <<running, client_connections, srvApp, loop, nextConn,
                   client, flagVars, ctxVars, bridgeVars, errVars>>

\* ------------------------------------- MCPCommunicationServer._run_server
\* one iteration of the accept loop: the thread has found `running` true
\* and waits in accept(); it accepts, appends, spawns the handler, and
\* tests `running` again
_run_server(c) ==
    /\ loop = "accept"
    /\ server_socket = "listening"
    /\ conn[c].srv = "backlog"
    /\ \A d \in DOMAIN conn : conn[d].srv = "backlog" => c <= d
    /\ client_connections' = Append(client_connections, c)
    /\ conn' = [conn EXCEPT ![c].srv = "open", ![c].hnd = "run"]
    /\ loop' = IF running THEN "accept" ELSE "exit"
    /\ UNCHANGED <<running, server_socket, srvApp, stopPc, nextConn, client,
                   flagVars, ctxVars, bridgeVars, errVars>>

\* the thread waiting on a replaced socket accepts a connection there, then
\* goes on with self.server_socket: it joins the thread of the new socket,
\* or accept() raises on the socket that is not listening and the loop
\* breaks.  The replaced socket, no longer referenced, is closed and the
\* connections left in its backlog are reset
_run_server_replaced(c) ==
    /\ loop \in {"accept_replaced", "accept_both"}
    /\ conn[c].srv = "backlog"
    /\ \A d \in DOMAIN conn : conn[d].srv = "backlog" => c <= d
    /\ client_connections' = Append(client_connections, c)
    /\ loop' = IF loop = "accept_both" /\ server_socket = "listening"
               THEN "accept" ELSE "exit"
    /\ conn' = [d \in DOMAIN conn |->
                  IF d = c THEN [conn[c] EXCEPT !.srv = "open", !.hnd = "run"]
                  ELSE IF conn[d].srv = "backlog" /\ loop' = "exit"
                  THEN [conn[d] EXCEPT !.srv = "closed", !.req = <<>>]
                  ELSE conn[d]]
    /\ UNCHANGED <<running, server_socket, srvApp, stopPc, nextConn, client,
                   flagVars, ctxVars, bridgeVars, errVars>>

\* accept() raises on the closed listening socket: the loop breaks (a thread
\* waiting on a replaced socket goes on waiting)
_run_server_exit ==
    /\ loop \in {"accept", "accept_both"}
    /\ server_socket = "closed"
    /\ loop' = IF loop = "accept" THEN "exit" ELSE "accept_replaced"
    /\ UNCHANGED <<running, server_socket, client_connections, srvApp,
                   stopPc, netVars, client, flagVars, ctxVars, bridgeVars, errVars>>

\* ------------------------------------------------- the command handlers
\* What the host does during one handler call:
\*   product      app.activeProduct: "none" | "design" | "other"
\*   fault        "none" | "caught" (raised inside the handler's own try)
\*                | "escapes" (raised by the handler itself)
\*   msg          the exception's message
\*   size         bytes of the encoded result
\*   serializable json.dumps accepts the result
HostBehaviours ==
    [product : {"none", "design", "other"},
     fault : {"none", "caught", "escapes"},
     msg : ExcMsgs,
     size : FrameSizes,
     serializable : BOOLEAN]

Success(h) == [success |-> TRUE]

\* the behaviours that make a difference for a frame: a field the handling
\* of the frame never reads has its first value
Relevant(frame, h, kept) ==
    LET decoded == frame.frame = "object" /\ frame.size <= RECV_BUFFER
        called == decoded /\ frame.command \in DispatchTable
        succeeds == called /\ h.fault = "none" /\ h.product = "design"
                    /\ frame.params # "bad"
    IN  /\ ~called => h.fault = "none"
        /\ ~(called /\ h.fault = "none") => h.product = "design"
        /\ ~succeeds => h.size = SmallFrame /\ h.serializable
        /\ frame.size <= RECV_BUFFER => kept

_get_design_info(h) ==
    IF h.fault = "escapes" THEN Raise(h.msg)
    ELSE IF ~srvApp THEN Ret(ErrorDict(<<"Application not initialized">>))
    ELSE IF h.fault = "caught"
         THEN Ret(ErrorDict(<<"Failed to get design info: ", h.msg>>))
    ELSE IF h.product = "none" THEN Ret(ErrorDict(<<"No active product">>))
    ELSE IF h.product = "other"
         THEN Ret(ErrorDict(<<"Current product is not a design">>))
    ELSE Ret(Success(h))

\* the other handlers of the table: same skeleton, params read inside the try
CommandHandler(command, params, h) ==
    IF h.fault = "escapes" THEN Raise(h.msg)
    ELSE IF ~srvApp THEN Ret(ErrorDict(<<"Application not initialized">>))
    ELSE IF h.fault = "caught" \/ params = "bad" \/ h.product = "none"
         THEN Ret(ErrorDict(<<"Failed to ", command, ": ", h.msg>>))
    ELSE IF h.product = "other"
         THEN Ret(ErrorDict(<<"Current product is not a design">>))
    ELSE Ret(Success(h))

\* ---------------------------------- MCPCommunicationServer._process_request
\* a variant without the final else: an unknown name is taken for no name
_process_request_no_else(request, h) ==
    IF request.frame # "object"
    THEN ErrorDict(<<"Request processing failed: ", h.msg>>)
    ELSE IF request.command \in DispatchTable
    THEN LET o == IF request.command = "get_design_info"
                  THEN _get_design_info(h)
                  ELSE CommandHandler(request.command, request.params, h)
         IN  IF o.raised
             THEN ErrorDict(<<"Command '", request.command,
                              "' execution failed: ", o.value>>)
             ELSE o.value
    ELSE ErrorDict(<<"Missing command parameter">>)

_process_request(request, h) ==
    IF request.frame # "object"
    THEN ErrorDict(<<"Request processing failed: ", h.msg>>)
    ELSE IF request.command \in {None, ""}
    THEN ErrorDict(<<"Missing command parameter">>)
    ELSE IF request.command \in DispatchTable
    THEN LET o == IF request.command = "get_design_info"
                  THEN _get_design_info(h)
                  ELSE CommandHandler(request.command, request.params, h)
         IN  IF o.raised
             THEN ErrorDict(<<"Command '", request.command,
                              "' execution failed: ", o.value>>)
             ELSE o.value
    ELSE ErrorDict(<<"Unknown command: ", request.command>>)

\* ------------------------------------ MCPCommunicationServer._handle_client
\* a variant whose `except Exception` clause writes no response
HandleFrameSilent(frame, h) ==
    IF frame.frame = "garbage" \/ frame.size > RECV_BUFFER
    THEN [resp |-> <<Frame(ErrorDict(<<"JSON parse error: ", h.msg>>),
                             SmallFrame)>>,
          open |-> FALSE]
    ELSE IF frame.frame = "binary"
    THEN [resp |-> <<>>, open |-> TRUE]
    ELSE LET response == _process_request(frame, h)
         IN  IF HasKey(response, "success") /\ ~h.serializable
             THEN [resp |-> <<>>, open |-> TRUE]
             ELSE [resp |-> <<Frame(response,
                                    IF HasKey(response, "success")
                                    THEN h.size ELSE SmallFrame)>>,
                   open |-> TRUE]

\* What one pass of the handler loop does with the frame it read:
\*   resp   the response written, <<>> if none
\*   open   the loop goes on (TRUE) or the socket is closed (FALSE)
HandleFrame(frame, h) ==
    IF frame.frame = "garbage" \/ frame.size > RECV_BUFFER
    THEN [resp |-> <<Frame(ErrorDict(<<"JSON parse error: ", h.msg>>),
                             SmallFrame)>>,
          open |-> FALSE]
    ELSE IF frame.frame = "binary"
    THEN [resp |-> <<Frame(ErrorDict(<<"Request processing error: ", h.msg>>),
                           SmallFrame)>>,
          open |-> TRUE]
    ELSE LET response == _process_request(frame, h)
         IN  IF HasKey(response, "success") /\ ~h.serializable
             THEN [resp |-> <<Frame(ErrorDict(<<"Request processing error: ",
                                                h.msg>>), SmallFrame)>>,
                   open |-> TRUE]
             ELSE [resp |-> <<Frame(response,
                                    IF HasKey(response, "success")
                                    THEN h.size ELSE SmallFrame)>>,
                   open |-> TRUE]

\* the command handler called for the frame raises
HandlerRaises(frame, h) ==
    /\ frame.frame = "object" /\ frame.size <= RECV_BUFFER
    /\ frame.command \in DispatchTable
    /\ h.fault = "escapes"

\* a variant that leaves the loop after a command handler raised
_handle_client_leaves(c, h, kept) ==
    /\ conn[c].hnd = "run"
    /\ conn[c].srv = "open"
    /\ conn[c].req # <<>>
    /\ Relevant(Head(conn[c].req), h, kept)
    /\ LET frame == Head(conn[c].req)
           r == HandleFrame(frame, h)
           unread == frame.size > RECV_BUFFER
           delivered == conn[c].cli = "open" /\ (unread => kept)
           goes_on == r.open /\ ~HandlerRaises(frame, h)
       IN  conn' = [conn EXCEPT
                      ![c].req = <<>>,
                      ![c].resp = IF delivered THEN r.resp ELSE <<>>,
                      ![c].srv = IF goes_on THEN "open" ELSE "closed",
                      ![c].hnd = IF goes_on THEN "run" ELSE "done"]
    /\ UNCHANGED <<srvVars, nextConn, client, flagVars, ctxVars, bridgeVars, errVars>>

\* read one frame, answer it.  `kept`: the answer survives in the peer's
\* receive queue when this side closes with unread bytes (a reset)
_handle_client(c, h, kept) ==
    /\ conn[c].hnd = "run"
    /\ conn[c].srv = "open"
    /\ conn[c].req # <<>>
    /\ Relevant(Head(conn[c].req), h, kept)
    /\ LET frame == Head(conn[c].req)
           r == HandleFrame(frame, h)
           unread == frame.size > RECV_BUFFER
           delivered == conn[c].cli = "open" /\ (unread => kept)
       IN  conn' = [conn EXCEPT
                      ![c].req = <<>>,
                      ![c].resp = IF delivered THEN r.resp ELSE <<>>,
                      ![c].srv = IF r.open THEN "open" ELSE "closed",
                      ![c].hnd = IF r.open THEN "run" ELSE "done"]
    /\ UNCHANGED <<srvVars, nextConn, client, flagVars, ctxVars, bridgeVars, errVars>>

\* recv returns b"" (peer closed), times out after 30 s, or fails because
\* stop() closed the socket: the loop ends and the socket is closed
_handle_client_end(c) ==
    /\ conn[c].hnd = "run"
    /\ conn[c].req = <<>> \/ conn[c].srv = "closed"
    /\ conn' = [conn EXCEPT ![c].srv = "closed", ![c].hnd = "done",
                            ![c].req = <<>>]
    /\ UNCHANGED <<srvVars, nextConn, client, flagVars, ctxVars, bridgeVars, errVars>>

\* -------------------------------------------------- Fusion360PluginClient
Unconnected == -1     \* a socket object that is not connected
\* call: the public method running (or run last); ret: what send_command
\* returned last; tc: what test_connection returned last
NewClient == [connected |-> FALSE, sock |-> 0, pc |-> "idle",
              call |-> "send_command", ret |-> NoResult, tc |-> FALSE]

is_connected(cl) == cl.connected /\ cl.sock # 0

\* a socket object is closed (close() or its last reference is dropped)
\* what the peer sent and was not read is discarded
CloseSocket(cn, sk) ==
    IF sk > 0 THEN [cn EXCEPT ![sk].cli = "closed", ![sk].resp = <<>>]
    ELSE cn

disconnect(cl) == [cl EXCEPT !.sock = 0, !.connected = FALSE]

\* a variant of the except clause that keeps the socket
send_command_except_keeps(cl, msg) ==
    [cl EXCEPT
        !.pc = "idle",
        !.ret = Ret(ErrorDict(<<"Communication error: ", msg>>))]

\* the except clause of send_command
send_command_except(cl, msg) ==
    [disconnect(cl) EXCEPT
        !.pc = "idle",
        !.ret = Ret(ErrorDict(<<"Communication error: ", msg>>))]

\* connect(): a new socket object replaces self._socket
connect(cl, ok, c) ==
    IF ok THEN [cl EXCEPT !.sock = c, !.connected = TRUE]
    ELSE [cl EXCEPT !.sock = Unconnected, !.connected = FALSE]

\* a socket is listening on the port
Listening ==
    \/ server_socket = "listening"
    \/ loop \in {"accept_replaced", "accept_both"}

\* the part of send_command up to the blocking recv, as a pair
\* <<client record, connections>>
\*   sendOk: a write to a socket the peer has closed is accepted (and lost)
\*           or raises
send_command_begin(cl, cn, command, params, size, sendOk) ==
    LET need == ~is_connected(cl)
        cn0  == IF need THEN CloseSocket(cn, cl.sock) ELSE cn
        cl1  == IF need THEN connect(cl, Listening, nextConn) ELSE cl
        cn1  == IF need /\ Listening
                THEN [cn0 EXCEPT ![nextConn] =
                         [NoConn EXCEPT !.cli = "open", !.srv = "backlog"]]
                ELSE cn0
        c    == cl1.sock
    IN  IF need /\ ~Listening
        THEN <<[cl1 EXCEPT !.ret = Ret(ErrorDict(
                    <<"Unable to connect to Fusion360 plugin">>))], cn1>>
        ELSE IF params = "unencodable"
        THEN <<send_command_except(cl1, "not JSON serializable"),
               CloseSocket(cn1, c)>>
        ELSE IF cn1[c].srv = "closed" /\ ~sendOk
        THEN <<send_command_except(cl1, "Broken pipe"), CloseSocket(cn1, c)>>
        ELSE <<[cl1 EXCEPT !.pc = "recv"],
               IF cn1[c].srv = "closed" THEN cn1
               ELSE [cn1 EXCEPT ![c].req =
                        <<Request(command, IF params = None THEN "ok"
                                           ELSE params, size)>>]>>

\* a variant that keeps the socket when the recv times out
send_command_end_keeps(cl, timeout) ==
    LET c == cl.sock
    IN  IF conn[c].resp # <<>> /\ ~timeout
        THEN LET f == Head(conn[c].resp)
             IN  IF f.size > RECV_BUFFER
                 THEN <<send_command_except(cl, "Unterminated string"),
                        CloseSocket(conn, c)>>
                 ELSE <<[cl EXCEPT !.pc = "idle", !.ret = Ret(f.body)],
                        [conn EXCEPT ![c].resp = <<>>]>>
        ELSE IF timeout
        THEN <<[cl EXCEPT !.pc = "idle",
                          !.ret = Ret(ErrorDict(<<"Communication error: ",
                                                  "timed out">>))],
               conn>>
        ELSE <<send_command_except(cl, "Expecting value"),
               CloseSocket(conn, c)>>

\* the rest of send_command: recv(4096) and json.loads
\*   timeout: the recv times out although the peer is alive
send_command_end(cl, timeout) ==
    LET c == cl.sock
    IN  IF conn[c].resp # <<>> /\ ~timeout
        THEN LET f == Head(conn[c].resp)
             IN  IF f.size > RECV_BUFFER
                 THEN <<send_command_except(cl, "Unterminated string"),
                        CloseSocket(conn, c)>>
                 ELSE <<[cl EXCEPT !.pc = "idle", !.ret = Ret(f.body)],
                        [conn EXCEPT ![c].resp = <<>>]>>
        ELSE <<send_command_except(cl, IF timeout THEN "timed out"
                                       ELSE "Expecting value"),
               CloseSocket(conn, c)>>

\* the recv of a waiting send_command can return
CanReturn(cl, timeout) ==
    /\ cl.pc = "recv"
    /\ IF timeout
       THEN conn[cl.sock].resp = <<>> /\ conn[cl.sock].srv # "closed"
       ELSE conn[cl.sock].resp # <<>> \/ conn[cl.sock].srv = "closed"

\* a variant that takes every error for a failure
test_connection_strict(o) ==
    IF o.raised THEN FALSE
    ELSE ~HasKey(o.value, "error")

\* test_connection(), given what get_design_info() gave
test_connection(o) ==
    IF o.raised THEN FALSE
    ELSE \/ ~HasKey(o.value, "error")
         \/ /\ o.value.error.t = "str"
            /\ Contains(o.value.error.s, "No active product")

\* ------------------------------------------------------------ ErrorHandler
\* an exception: a typed Fusion360Error carries its category and severity;
\* an untyped one is known by the keyword sets its message matches (kw)

Exc(msg, kw) == [typed |-> FALSE, category |-> "unknown",
                 severity |-> "medium", kw |-> kw, msg |-> msg]
PluginCommunicationError(msg) ==
    [typed |-> TRUE, category |-> "plugin_comm", severity |-> "high",
     kw |-> {}, msg |-> msg]
FusionAPIError(msg) ==
    [typed |-> TRUE, category |-> "fusion_api", severity |-> "medium",
     kw |-> {}, msg |-> msg]
ValidationError(msg) ==
    [typed |-> TRUE, category |-> "validation", severity |-> "low",
     kw |-> {}, msg |-> msg]
ResourceError(msg) ==
    [typed |-> TRUE, category |-> "resource", severity |-> "medium",
     kw |-> {}, msg |-> msg]

\* the keyword lists of _classify_error, in the order it tries them
Keywords ==
    [comm |-> {"connection", "socket", "timeout", "network", "communication"},
     api  |-> {"fusion", "adsk", "sketch", "feature", "component"},
     val  |-> {"invalid", "validation", "parameter", "argument"},
     res  |-> {"file", "directory", "path", "resource", "access"}]

\* str.lower() on the words the messages are made of
Lower(word) ==
    CASE word = "Invalid" -> "invalid"
      [] word = "SOCKET"  -> "socket"
      [] word = "Path"    -> "path"
      [] OTHER            -> word

\* the keyword lists with a keyword in error_message.lower()
Matches(msg) ==
    {s \in DOMAIN Keywords :
        \E i \in 1..Len(msg) : Lower(msg[i]) \in Keywords[s]}

\* Exception(message): an exception that is not a Fusion360Error
Exception(msg) == Exc(msg, Matches(msg))

\* the base class, with a category and a severity of the caller's choice
Fusion360Error(msg, category, severity) ==
    [typed |-> TRUE, category |-> category, severity |-> severity,
     kw |-> Matches(msg), msg |-> msg]

\* a variant that tries the validation keywords before the host API ones
_classify_error_validation_first(e) ==
    IF e.typed THEN e
    ELSE IF "comm" \in e.kw
         THEN PluginCommunicationError(<<"Plugin communication error: ">> \o e.msg)
    ELSE IF "val" \in e.kw
         THEN ValidationError(<<"Data validation error: ">> \o e.msg)
    ELSE IF "api" \in e.kw
         THEN FusionAPIError(<<"Fusion360 API error: ">> \o e.msg)
    ELSE IF "res" \in e.kw
         THEN ResourceError(<<"Resource access error: ">> \o e.msg)
    ELSE [typed |-> TRUE, category |-> "unknown", severity |-> "medium",
          kw |-> {}, msg |-> <<"Unknown error: ">> \o e.msg]

_classify_error(e) ==
    IF e.typed THEN e
    ELSE IF "comm" \in e.kw
         THEN PluginCommunicationError(<<"Plugin communication error: ">> \o e.msg)
    ELSE IF "api" \in e.kw
         THEN FusionAPIError(<<"Fusion360 API error: ">> \o e.msg)
    ELSE IF "val" \in e.kw
         THEN ValidationError(<<"Data validation error: ">> \o e.msg)
    ELSE IF "res" \in e.kw
         THEN ResourceError(<<"Resource access error: ">> \o e.msg)
    ELSE [typed |-> TRUE, category |-> "unknown", severity |-> "medium",
          kw |-> {}, msg |-> <<"Unknown error: ">> \o e.msg]

\* error_id = f"ERR_{int(time.time() * 1000)}"
_log_error(fe, now) ==
    [error_id |-> now, category |-> fe.category, severity |-> fe.severity,
     message |-> fe.msg]

\* the slice h[-n:] for n >= 0: the last n elements, and all of h for n = 0
\* (-0 is 0, and h[0:] is h)
SliceFromEnd(h, n) ==
    IF n = 0 \/ n >= Len(h) THEN h ELSE SubSeq(h, Len(h) - n + 1, Len(h))

_add_to_history(history, record) ==
    LET h == Append(history, record)
    IN  IF Len(h) > max_history_size
        THEN SliceFromEnd(h, max_history_size)
        ELSE h

UserMessages ==
    [plugin_comm |-> [high |-> "problem connecting to the plugin",
                      medium |-> "plugin communication interrupted",
                      low |-> "minor plugin communication issue"],
     fusion_api  |-> [high |-> "operation failed",
                      medium |-> "features temporarily unavailable",
                      low |-> "minor issue, automatically handled"],
     validation  |-> [medium |-> "input parameters are incorrect",
                      low |-> "data format needs adjustment"],
     resource    |-> [high |-> "unable to access resources",
                      medium |-> "resource access restricted",
                      low |-> "minor resource issue"]]

_generate_user_report(fe) ==
    IF fe.category \in DOMAIN UserMessages
       /\ fe.severity \in DOMAIN UserMessages[fe.category]
    THEN UserMessages[fe.category][fe.severity]
    ELSE "an issue was encountered"

\* delays in milliseconds, backoff factors in tenths
RetryStrategies ==
    [plugin_comm |-> [max_retries |-> 3, backoff_factor |-> 20,
                      initial_delay |-> 1000, recoverable |-> TRUE],
     fusion_api  |-> [max_retries |-> 2, backoff_factor |-> 15,
                      initial_delay |-> 500, recoverable |-> TRUE],
     network     |-> [max_retries |-> 5, backoff_factor |-> 20,
                      initial_delay |-> 1000, recoverable |-> TRUE],
     resource    |-> [max_retries |-> 2, backoff_factor |-> 10,
                      initial_delay |-> 500, recoverable |-> TRUE],
     validation  |-> [max_retries |-> 0, recoverable |-> FALSE],
     config      |-> [max_retries |-> 1, backoff_factor |-> 10,
                      initial_delay |-> 100, recoverable |-> TRUE]]

\* the order in which the dict retry_strategies yields its items
StrategyOrder == <<"plugin_comm", "fusion_api", "network", "resource",
                   "validation", "config">>

\* strategy.get(key, default)
Get(strategy, key, default) ==
    IF key \in DOMAIN strategy THEN strategy[key] ELSE default

\* a variant that takes a category without an entry for recoverable
_is_recoverable_by_default(fe) ==
    IF fe.category \in DOMAIN RetryStrategies
    THEN RetryStrategies[fe.category].recoverable
    ELSE TRUE

_is_recoverable(fe) ==
    IF fe.category \in DOMAIN RetryStrategies
    THEN RetryStrategies[fe.category].recoverable
    ELSE FALSE

\* the report handle_error returns for exception e at time now
handle_error(e, now) ==
    LET fe == _classify_error(e)
        record == _log_error(fe, now)
    IN  [error_id |-> record.error_id,
         category |-> fe.category,
         severity |-> fe.severity,
         message |-> fe.msg,
         user_message |-> _generate_user_report(fe),
         technical_details |-> fe.category,
         recovery_suggestions |-> fe.category,
         recoverable |-> _is_recoverable(fe),
         timestamp |-> now]

\* the history after handle_error has handled the exceptions es in turn
RECURSIVE HandleAll(_, _, _)
HandleAll(history, es, now) ==
    IF es = <<>> THEN history
    ELSE HandleAll(_add_to_history(history,
                       _log_error(_classify_error(Head(es)), now)),
                   Tail(es), now)

\* ---- handle_error called on the handler itself

InitErrorHandler ==
    /\ error_history = <<>>
    /\ clock = 0
    /\ handle_calls = <<>>
    /\ retry = [pc |-> "idle", func |-> [fails |-> 0, error |-> Exception(<<>>)],
                category |-> 1, attempt |-> 0, calls |-> 0, delay |-> 0,
                sleeps |-> <<>>, out |-> NoResult]
    /\ wrapper = [pc |-> "idle", returns |-> "nothing", out |-> NoResult]
    /\ handlers = [t \in Threads |-> [pc |-> "idle"]]

\* what one handle_error(e) does to the handler and to the log of calls
HandleError(e) ==
    LET record == _log_error(_classify_error(e), clock)
    IN  /\ error_history' = _add_to_history(error_history, record)
        /\ handle_calls' = Append(handle_calls,
               [error |-> e, record |-> record,
                report |-> handle_error(e, clock)])

handle_error_call(e) ==
    /\ retry.pc = "idle"
    /\ Len(handle_calls) < MaxErrors
    /\ HandleError(e)
    /\ UNCHANGED <<srvVars, netVars, client, flagVars, ctxVars, bridgeVars,
                   max_history_size, clock, retry, wrapper, handlers>>

\* ---- handle_error called by several threads on the shared handler
\* (get_error_handler returns the one module-level instance).  There is no
\* lock: list.append, len, the slice and the assignment to
\* self.error_history are separate steps of a thread

\* the error of the n-th call: Fusion360Error(f"Error {n}")
NthError(n) ==
    Fusion360Error(<<"Error ", <<"1", "2", "3", "4", "5", "6">>[n]>>,
                   "unknown", "medium")

\* classify, log, and self.error_history.append(error_record)
handle_error_begin(t) ==
    /\ handlers[t].pc = "idle"
    /\ Len(handle_calls) < MaxCalls
    /\ LET n == Len(handle_calls) + 1
           e == NthError(n)
           record == _log_error(_classify_error(e), clock)
       IN  /\ error_history' = Append(error_history, record)
           /\ handle_calls' = Append(handle_calls,
                  [error |-> e, record |-> record,
                   report |-> handle_error(e, clock),
                   returned |-> FALSE,
                   after |-> {i \in 1..Len(handle_calls) :
                                 handle_calls[i].returned}])
           /\ handlers' = [handlers EXCEPT ![t] = [pc |-> "check", call |-> n]]
    /\ UNCHANGED <<srvVars, netVars, client, flagVars, ctxVars, bridgeVars,
                   max_history_size, clock, retry, wrapper>>

\* if len(self.error_history) > self.max_history_size: (handle_error returns
\* to the thread when it is not)
_add_to_history_check(t) ==
    /\ handlers[t].pc = "check"
    /\ IF Len(error_history) > max_history_size
       THEN /\ handlers' = [handlers EXCEPT ![t].pc = "slice"]
            /\ UNCHANGED handle_calls
       ELSE /\ handlers' = [handlers EXCEPT ![t] = [pc |-> "idle"]]
            /\ handle_calls' =
                 [handle_calls EXCEPT ![handlers[t].call].returned = TRUE]
    /\ UNCHANGED <<srvVars, netVars, client, flagVars, ctxVars, bridgeVars,
                   error_history, max_history_size, clock, retry, wrapper>>

\* self.error_history[-self.max_history_size:] is evaluated
_add_to_history_slice(t) ==
    /\ handlers[t].pc = "slice"
    /\ handlers' = [handlers EXCEPT ![t] =
           [pc |-> "store", call |-> handlers[t].call,
            sliced |-> SliceFromEnd(error_history, max_history_size)]]
    /\ UNCHANGED <<srvVars, netVars, client, flagVars, ctxVars, bridgeVars,
                   error_history, max_history_size, clock, handle_calls,
                   retry, wrapper>>

\* self.error_history = <the slice>
_add_to_history_store(t) ==
    /\ handlers[t].pc = "store"
    /\ error_history' = handlers[t].sliced
    /\ handlers' = [handlers EXCEPT ![t] = [pc |-> "idle"]]
    /\ handle_calls' =
                 [handle_calls EXCEPT ![handlers[t].call].returned = TRUE]
    /\ UNCHANGED <<srvVars, netVars, client, flagVars, ctxVars, bridgeVars,
                   max_history_size, clock, retry, wrapper>>

\* a millisecond of time.time() passes
tick ==
    /\ clock < MaxErrors
    /\ clock' = clock + 1
    /\ UNCHANGED <<srvVars, netVars, client, flagVars, ctxVars, bridgeVars,
                   error_history, max_history_size, handle_calls, retry,
                   wrapper, handlers>>

\* ---- retry_with_backoff(func)
\* func fails on its first func.fails invocations with func.error and
\* returns "success" afterwards

RECURSIVE Pow(_, _)
Pow(b, n) == IF n = 0 THEN 1 ELSE b * Pow(b, n - 1)

\* initial_delay * backoff_factor ** attempt
Delay(strategy, attempt) ==
    (Get(strategy, "initial_delay", 1000)
        * Pow(Get(strategy, "backoff_factor", 20), attempt)) \div Pow(10, attempt)

retry_with_backoff(func) ==
    /\ retry.pc = "idle"
    /\ retry' = [retry EXCEPT !.pc = "try", !.func = func]
    /\ UNCHANGED <<srvVars, netVars, client, flagVars, ctxVars, bridgeVars,
                   error_history, max_history_size, clock, handle_calls,
                   wrapper, handlers>>

\* one pass of the inner loop: func is invoked; on failure either the delay
\* is computed and the sleep begins, or the error is handled and the loop
\* over the strategies moves on
retry_try ==
    /\ retry.pc = "try"
    /\ LET strategy == RetryStrategies[StrategyOrder[retry.category]]
           max_retries == Get(strategy, "max_retries", 0)
           calls == retry.calls + 1
       IN  IF calls > retry.func.fails
           THEN /\ retry' = [retry EXCEPT !.pc = "done", !.calls = calls,
                                          !.out = Ret("success")]
                /\ UNCHANGED <<error_history, handle_calls>>
           ELSE IF retry.attempt < max_retries
           THEN /\ retry' = [retry EXCEPT !.pc = "sleep", !.calls = calls,
                                 !.delay = Delay(strategy, retry.attempt)]
                /\ UNCHANGED <<error_history, handle_calls>>
           ELSE /\ HandleError(retry.func.error)
                /\ retry' =
                     IF retry.category < Len(StrategyOrder)
                     THEN [retry EXCEPT !.calls = calls, !.attempt = 0,
                                        !.category = retry.category + 1]
                     ELSE [retry EXCEPT !.calls = calls, !.pc = "done",
                                        !.out = Raise(retry.func.error)]
    /\ UNCHANGED <<srvVars, netVars, client, flagVars, ctxVars, bridgeVars,
                   max_history_size, clock, wrapper, handlers>>

\* time.sleep(delay) returns
retry_sleep ==
    /\ retry.pc = "sleep"
    /\ retry' = [retry EXCEPT !.pc = "try",
                              !.sleeps = Append(retry.sleeps, retry.delay),
                              !.attempt = retry.attempt + 1]
    /\ UNCHANGED <<srvVars, netVars, client, flagVars, ctxVars, bridgeVars,
                   error_history, max_history_size, clock, handle_calls,
                   wrapper, handlers>>

\* ---- error_handler_decorator(error_handler)(func)
\* the wrapper invokes func; on a failure it handles the error and, when the
\* report says recoverable, hands func to retry_with_backoff

ErrorResult(e) == [error |-> TRUE] @@ handle_error(e, clock)

wrapper_call(func) ==
    /\ wrapper.pc = "idle"
    /\ retry.pc = "idle"
    /\ IF func.fails = 0
       THEN /\ wrapper' = [pc |-> "done", returns |-> "value",
                           out |-> Ret("success")]
            /\ retry' = [retry EXCEPT !.func = func, !.calls = 1]
            /\ UNCHANGED <<error_history, handle_calls>>
       ELSE /\ HandleError(func.error)
            /\ IF ErrorResult(func.error).recoverable
               THEN /\ wrapper' = [pc |-> "retrying", returns |-> "nothing",
                                   out |-> Ret(ErrorResult(func.error))]
                    /\ retry' = [retry EXCEPT !.pc = "try", !.func = func,
                                              !.calls = 1]
               ELSE /\ wrapper' = [pc |-> "done", returns |-> "report",
                                   out |-> Ret(ErrorResult(func.error))]
                    /\ retry' = [retry EXCEPT !.func = func, !.calls = 1]
    /\ UNCHANGED <<srvVars, netVars, client, flagVars, ctxVars, bridgeVars,
                   max_history_size, clock, handlers>>

\* a variant that lets the exception of the failed retry through
wrapper_return_propagates ==
    /\ wrapper.pc = "retrying"
    /\ retry.pc = "done"
    /\ wrapper' = IF retry.out.raised
                  THEN [pc |-> "done", returns |-> "nothing", out |-> retry.out]
                  ELSE [pc |-> "done", returns |-> "value", out |-> retry.out]
    /\ UNCHANGED <<srvVars, netVars, client, flagVars, ctxVars, bridgeVars,
                   error_history, max_history_size, clock, handle_calls,
                   retry, handlers>>

\* retry_with_backoff has returned or raised inside the wrapper
wrapper_return ==
    /\ wrapper.pc = "retrying"
    /\ retry.pc = "done"
    /\ wrapper' = IF retry.out.raised
                  THEN [wrapper EXCEPT !.pc = "done", !.returns = "report"]
                  ELSE [pc |-> "done", returns |-> "value", out |-> retry.out]
    /\ UNCHANGED <<srvVars, netVars, client, flagVars, ctxVars, bridgeVars,
                   error_history, max_history_size, clock, handle_calls,
                   retry, handlers>>

\* --------------------------------------------------------- Fusion360Bridge
BridgeOps == {"initialize", "has_active_design", "get_design_info",
              "get_component_hierarchy", "create_sketch", "create_rectangle",
              "create_circle", "create_extrude", "get_sketches",
              "get_features", "validate_operation", "refresh_design",
              "cleanup"}

\* the command the plugin client sends for a Bridge operation
PluginCommand(op) ==
    IF op \in {"initialize", "has_active_design", "validate_operation",
               "refresh_design"}
    THEN "get_design_info" ELSE op

\* arguments of an operation
BridgeArgs == [plane : {"XY", "AB"},
               operation_type : {"sketch_operation", "extrude_operation",
                                 "other_operation"},
               sketch_name : BOOLEAN]

\* What the in-process host API does during one operation:
\*   fault     "none" | "early" (the first call raises) | "late"
\*   msg, kw   the exception's message and the keyword sets it matches
\*   product   app.activeProduct
\*   found     the named sketch exists;  profiles: it has profiles
DirectBehaviours ==
    [fault : {"none", "early", "late"},
     kw : {{}, {"comm"}, {"api", "val"}},
     product : {"none", "design", "other"},
     found : BOOLEAN,
     profiles : BOOLEAN]
DMsg(d) == <<"object is invalid">>

St == [mode |-> _mode, initialized |-> _initialized, app |-> app,
       design |-> design]
\* result of an operation: what it returns (or raises), the Bridge fields
\* it leaves, the exceptions it gave to handle_error
R(ret, st, handled) == [ret |-> ret, st |-> st, handled |-> handled]

Handled(e) == IF error_handler THEN <<e>> ELSE <<>>

\* except Exception as e:  {"error": True, **error_result} or {"error": str(e)}
OpExcept(e, now) ==
    IF error_handler THEN [error |-> ErrTrue] @@ handle_error(e, now)
    ELSE ErrorDict(e.msg)

\* a variant without the except clause: the exception leaves the operation
GuardedPropagates(inner, now) == inner

\* try: <inner>  except Exception as e: <OpExcept>
Guarded(inner, now) ==
    IF inner.ret.raised
    THEN R(Ret(OpExcept(inner.ret.value, now)), inner.st,
           inner.handled \o Handled(inner.ret.value))
    ELSE inner

\* try: <inner>  except Exception as e: handle_error; return default
GuardedValue(inner, default) ==
    IF inner.ret.raised
    THEN R(Ret(default), inner.st, inner.handled \o Handled(inner.ret.value))
    ELSE inner

\* a variant that selects simulation when the connection test fails
_initialize_plugin_mode_or_simulation(tc) ==
    IF ~tc.raised /\ tc.value
    THEN R(Ret(TRUE), [St EXCEPT !.mode = "plugin", !.initialized = TRUE],
           <<>>)
    ELSE R(Ret(TRUE), [St EXCEPT !.mode = "simulation", !.initialized = TRUE],
           <<>>)

_initialize_plugin_mode(tc) ==
    IF tc.raised
    THEN IF ERROR_HANDLING_AVAILABLE
         THEN R(Raise(PluginCommunicationError(
                    <<"Plugin communication initialization failed: ">>
                    \o tc.value.msg)), St, <<>>)
         ELSE R(Ret(FALSE), St, <<>>)
    ELSE IF tc.value
    THEN R(Ret(TRUE), [St EXCEPT !.mode = "plugin", !.initialized = TRUE],
           <<>>)
    ELSE R(Ret(FALSE), St, <<>>)

_initialize_direct_mode(d) ==
    IF d.fault # "none"
    THEN LET st == IF d.fault = "late" THEN [St EXCEPT !.app = TRUE] ELSE St
         IN  IF ERROR_HANDLING_AVAILABLE
             THEN R(Raise(FusionAPIError(
                        <<"Direct API initialization failed: ">> \o DMsg(d))),
                    st, <<>>)
             ELSE R(Ret(FALSE), st, <<>>)
    ELSE R(Ret(TRUE),
           [St EXCEPT !.app = TRUE,
                      !.design = IF d.product = "none" THEN design
                                 ELSE d.product = "design",
                      !.mode = "direct", !.initialized = TRUE],
           <<>>)

\* o: what plugin_client.get_design_info() returned (plugin mode only)
initialize(o, d) ==
    GuardedValue(
        IF use_plugin_mode /\ PLUGIN_CLIENT_AVAILABLE
        THEN _initialize_plugin_mode(Ret(test_connection(o)))
        ELSE IF FUSION_AVAILABLE
        THEN _initialize_direct_mode(d)
        ELSE R(Ret(TRUE),
               [St EXCEPT !.mode = "simulation", !.initialized = TRUE], <<>>),
        FALSE)

has_active_design(o) ==
    GuardedValue(
        IF _mode = "plugin"
        THEN R(Ret(HasKey(o.value, "success") /\ o.value.success), St, <<>>)
        ELSE IF _mode = "direct" THEN R(Ret(design), St, <<>>)
        ELSE R(Ret(TRUE), St, <<>>),
        FALSE)

\* a direct-mode body: `if not self.design`, then host calls in a try that
\* re-raises as FusionAPIError or, without the error classes, returns str(e)
DirectBody(d, what) ==
    IF ~design THEN Ret(ErrorDict(<<"No active design">>))
    ELSE IF d.fault # "none"
    THEN IF ERROR_HANDLING_AVAILABLE
         THEN Raise(FusionAPIError(<<"Failed to ", what, ": ">> \o DMsg(d)))
         ELSE Ret(ErrorDict(DMsg(d)))
    ELSE Ret([success |-> TRUE, mode |-> "direct"])

_get_design_info_direct(d) == DirectBody(d, "get design info")
_get_component_hierarchy_direct(d) == DirectBody(d, "get component hierarchy")

_create_sketch_direct(plane, d) ==
    IF ~design THEN Ret(ErrorDict(<<"No active design">>))
    ELSE IF d.fault = "early"
    THEN IF ERROR_HANDLING_AVAILABLE
         THEN Raise(FusionAPIError(<<"Failed to create sketch: ">> \o DMsg(d)))
         ELSE Ret(ErrorDict(<<"Failed to create sketch: ">> \o DMsg(d)))
    ELSE IF plane # "XY"
    THEN Ret(ErrorDict(<<"Unsupported plane: ", plane>>))
    ELSE IF d.fault = "late"
    THEN IF ERROR_HANDLING_AVAILABLE
         THEN Raise(FusionAPIError(<<"Failed to create sketch: ">> \o DMsg(d)))
         ELSE Ret(ErrorDict(<<"Failed to create sketch: ">> \o DMsg(d)))
    ELSE Ret([success |-> TRUE, mode |-> "direct"])

Simulated == Ret([success |-> TRUE, mode |-> "simulation"])

\* get_design_info, get_component_hierarchy, create_sketch
RoutedOp(op, a, o, d, now) ==
    Guarded(
        R(IF _mode = "plugin" THEN o
          ELSE IF _mode = "direct"
          THEN IF op = "get_design_info" THEN _get_design_info_direct(d)
               ELSE IF op = "get_component_hierarchy"
               THEN _get_component_hierarchy_direct(d)
               ELSE _create_sketch_direct(a.plane, d)
          ELSE Simulated,
          St, <<>>),
        now)

\* create_rectangle, create_circle, create_extrude, get_sketches, get_features
DeclaredGapOp(op, o, now) ==
    Guarded(
        R(IF _mode = "plugin" THEN o
          ELSE IF _mode = "direct"
          THEN Ret(ErrorDict(<<op, " in direct API mode not yet implemented">>))
          ELSE Simulated,
          St, <<>>),
        now)

\* get_sketch_by_name: the sketch is found, or None; its own except clause
\* hands the exception to handle_error
get_sketch_by_name(d) ==
    IF _mode # "direct" \/ ~design THEN [found |-> FALSE, handled |-> <<>>]
    ELSE IF d.fault = "early"
    THEN [found |-> FALSE, handled |-> Handled(Exc(DMsg(d), d.kw))]
    ELSE [found |-> d.found, handled |-> <<>>]

ValidDict(text) == [valid |-> FALSE, error |-> ErrStr(text)]

validate_operation(a, o, d, now) ==
    LET had == has_active_design(o)
        sk  == get_sketch_by_name(d)
        ok  == Ret([valid |-> TRUE, mode |-> _mode])
        inner ==
            IF ~_initialized
            THEN R(Ret(ValidDict(<<"Fusion 360 not initialized">>)), St, <<>>)
            ELSE IF ~had.ret.value
            THEN R(Ret(ValidDict(<<"No active design">>)), St, had.handled)
            ELSE IF a.sketch_name /\ _mode = "direct"
                    /\ a.operation_type # "other_operation"
            THEN IF ~sk.found
                 THEN R(Ret(ValidDict(<<"Sketch not found: ", "name">>)), St,
                        sk.handled)
                 ELSE IF a.operation_type = "sketch_operation"
                 THEN R(ok, St, <<>>)
                 ELSE IF d.fault = "late"
                 THEN R(Raise(Exc(DMsg(d), d.kw)), St, <<>>)
                 ELSE IF ~d.profiles
                 THEN R(Ret(ValidDict(<<"Sketch has no extrudable profiles">>)),
                        St, <<>>)
                 ELSE R(ok, St, <<>>)
            ELSE R(ok, St, <<>>)
    IN  IF inner.ret.raised
        THEN R(Ret(ValidDict(
                   IF error_handler
                   THEN <<handle_error(inner.ret.value, now).user_message>>
                   ELSE inner.ret.value.msg)),
               St, inner.handled \o Handled(inner.ret.value))
        ELSE inner

refresh_design(o, d) ==
    GuardedValue(
        IF _mode = "plugin" THEN R(Ret(test_connection(o)), St, <<>>)
        ELSE IF _mode = "direct"
        THEN IF app /\ d.fault # "none"
             THEN R(Raise(Exc(DMsg(d), d.kw)), St, <<>>)
             ELSE IF app /\ d.product # "none"
             THEN R(Ret(TRUE), [St EXCEPT !.design = d.product = "design"],
                    <<>>)
             ELSE R(Ret(FALSE), St, <<>>)
        ELSE R(Ret(TRUE), St, <<>>),
        FALSE)

\* cleanup(): disconnect() raises nothing; the client is updated by the action
cleanup ==
    LET inner == R(Ret(None), [St EXCEPT !.initialized = FALSE], <<>>)
    IN  IF inner.ret.raised
        THEN R(Ret(None), St, Handled(inner.ret.value))
        ELSE inner

\* the operation op, given the answer o of the plugin client (if it was asked)
BridgeEval(op, a, o, d, now) ==
    IF op = "initialize" THEN initialize(o, d)
    ELSE IF op = "has_active_design" THEN has_active_design(o)
    ELSE IF op \in {"get_design_info", "get_component_hierarchy",
                    "create_sketch"}
    THEN RoutedOp(op, a, o, d, now)
    ELSE IF op = "validate_operation" THEN validate_operation(a, o, d, now)
    ELSE IF op = "refresh_design" THEN refresh_design(o, d)
    ELSE IF op = "cleanup" THEN cleanup
    ELSE DeclaredGapOp(op, o, now)

\* the operation asks the plugin client
NeedsPlugin(op) ==
    IF op = "initialize" THEN use_plugin_mode /\ PLUGIN_CLIENT_AVAILABLE
    ELSE IF op = "validate_operation" THEN _mode = "plugin" /\ _initialized
    ELSE IF op = "cleanup" THEN FALSE
    ELSE _mode = "plugin"

\* ------------------------------------------------------------ the actions
IdlePc == [op |-> "idle", a |-> [plane |-> "XY",
                                  operation_type |-> "other_operation",
                                  sketch_name |-> FALSE]]
AnyDirect == [fault |-> "none", kw |-> {}, product |-> "none",
              found |-> FALSE, profiles |-> FALSE]

\* a Bridge operation returns: its fields, its result, the error history
Finish(op, r) ==
    /\ _mode' = r.st.mode
    /\ _initialized' = r.st.initialized
    /\ app' = r.st.app
    /\ design' = r.st.design
    /\ bridgeRet' = [op |-> op, out |-> r.ret]
    /\ bridgePc' = IdlePc
    /\ error_history' = HandleAll(error_history, r.handled, clock)
    /\ UNCHANGED <<max_history_size, clock, handle_calls, retry, wrapper,
                   handlers>>

\* a caller invokes a public Bridge operation
BridgeCall(op, a, d, size, sendOk) ==
    /\ bridgePc.op = "idle"
    /\ client[BridgeClient].pc = "idle"
    /\ IF NeedsPlugin(op)
       THEN LET fresh == op = "initialize"
                cl0 == IF fresh THEN NewClient ELSE client[BridgeClient]
                cn0 == IF fresh
                       THEN CloseSocket(conn, client[BridgeClient].sock)
                       ELSE conn
                opens == ~is_connected(cl0) /\ Listening
                b == send_command_begin(cl0, cn0, PluginCommand(op), "ok",
                                        size, sendOk)
            IN  /\ opens => nextConn <= MaxConn
                /\ nextConn' = IF opens THEN nextConn + 1 ELSE nextConn
                /\ conn' = b[2]
                /\ client' = [client EXCEPT ![BridgeClient] =
                                  [b[1] EXCEPT !.ret = NoResult]]
                /\ plugin_client' = TRUE
                /\ IF b[1].pc = "recv"
                   THEN /\ bridgePc' = [op |-> op, a |-> a]
                        /\ UNCHANGED <<_mode, _initialized, app, design,
                                       bridgeRet, errVars>>
                   ELSE Finish(op, BridgeEval(op, a, b[1].ret, d, clock))
       ELSE /\ Finish(op, BridgeEval(op, a, NoResult, d, clock))
            /\ IF op = "cleanup" /\ plugin_client
               THEN /\ client' = [client EXCEPT ![BridgeClient] =
                                     disconnect(client[BridgeClient])]
                    /\ conn' = CloseSocket(conn, client[BridgeClient].sock)
               ELSE UNCHANGED <<client, conn>>
            /\ UNCHANGED <<nextConn, plugin_client>>
    /\ UNCHANGED <<srvVars, flagVars, ctxVars>>

\* a caller invokes send_command on a client of its own
send_command(k, command, params, size, sendOk) ==
    /\ k # BridgeClient \/ ~plugin_client
    /\ client[k].pc = "idle"
    /\ sendOk \/ (is_connected(client[k])
                  /\ conn[client[k].sock].srv = "closed")
    /\ LET opens == ~is_connected(client[k]) /\ Listening
           b == send_command_begin(client[k], conn, command, params, size,
                                   sendOk)
       IN  /\ opens => nextConn <= MaxConn
           /\ nextConn' = IF opens THEN nextConn + 1 ELSE nextConn
           /\ conn' = b[2]
           /\ client' = [client EXCEPT ![k] =
                  [b[1] EXCEPT !.call = "send_command", !.tc = FALSE]]
    /\ UNCHANGED <<srvVars, flagVars, ctxVars, bridgeVars, errVars>>

\* a caller invokes test_connection on a client of its own: one
\* get_design_info round trip
test_connection_call(k, sendOk) ==
    /\ k # BridgeClient \/ ~plugin_client
    /\ client[k].pc = "idle"
    /\ sendOk \/ (is_connected(client[k])
                  /\ conn[client[k].sock].srv = "closed")
    /\ LET opens == ~is_connected(client[k]) /\ Listening
           b == send_command_begin(client[k], conn, "get_design_info", None,
                                   SmallFrame, sendOk)
       IN  /\ opens => nextConn <= MaxConn
           /\ nextConn' = IF opens THEN nextConn + 1 ELSE nextConn
           /\ conn' = b[2]
           /\ client' = [client EXCEPT ![k] =
                  [b[1] EXCEPT !.call = "test_connection",
                               !.tc = IF b[1].pc = "idle"
                                      THEN test_connection(b[1].ret)
                                      ELSE FALSE]]
    /\ UNCHANGED <<srvVars, flagVars, ctxVars, bridgeVars, errVars>>

\* bytes that are not a request object: text that is not JSON ("garbage"),
\* bytes that are not UTF-8 ("binary": decode raises UnicodeDecodeError,
\* which is no JSONDecodeError), or JSON that is not an object ("array")
RawFrame(kind) ==
    [frame |-> kind, command |-> None, params |-> None, size |-> SmallFrame]

\* a peer that is not the PluginClient writes such bytes on its connection
\* and reads the answer; it connects and reads as send_command does
send_bytes(k, kind, sendOk) ==
    /\ k # BridgeClient \/ ~plugin_client
    /\ client[k].pc = "idle"
    /\ sendOk \/ (is_connected(client[k])
                  /\ conn[client[k].sock].srv = "closed")
    /\ LET opens == ~is_connected(client[k]) /\ Listening
           b == send_command_begin(client[k], conn, None, None, SmallFrame,
                                   sendOk)
           c == b[1].sock
       IN  /\ opens => nextConn <= MaxConn
           /\ nextConn' = IF opens THEN nextConn + 1 ELSE nextConn
           /\ conn' = IF b[1].pc = "recv" /\ b[2][c].req # <<>>
                      THEN [b[2] EXCEPT ![c].req = <<RawFrame(kind)>>]
                      ELSE b[2]
           /\ client' = [client EXCEPT ![k] =
                  [b[1] EXCEPT !.call = "send_bytes", !.tc = FALSE]]
    /\ UNCHANGED <<srvVars, flagVars, ctxVars, bridgeVars, errVars>>

\* the blocking recv of send_command returns (or times out): the value goes
\* to the caller, or to the Bridge operation that waits for it
send_command_return(k, timeout) ==
    /\ CanReturn(client[k], timeout)
    /\ LET e == send_command_end(client[k], timeout)
       IN  /\ conn' = e[2]
           /\ IF k = BridgeClient /\ bridgePc.op # "idle"
              THEN /\ client' = [client EXCEPT ![k] =
                                    [e[1] EXCEPT !.ret = NoResult]]
                   /\ Finish(bridgePc.op,
                             BridgeEval(bridgePc.op, bridgePc.a, e[1].ret,
                                        AnyDirect, clock))
              ELSE /\ client' = [client EXCEPT ![k] =
                         [e[1] EXCEPT !.tc = IF e[1].call = "test_connection"
                                             THEN test_connection(e[1].ret)
                                             ELSE FALSE]]
                   /\ UNCHANGED <<_mode, _initialized, app, design, bridgePc,
                                  bridgeRet, errVars>>
    /\ UNCHANGED <<srvVars, nextConn, flagVars, ctxVars, plugin_client>>

\* ------------------------------------------- ContextPersistenceManager
MaxEntries == 3

ActionTypes == {"create_sketch", "create_extrude"}
NoLimit == <<>>

\* a timestamp: a datetime in memory, an ISO string once it went through
\* the JSON file; two of the same kind compare by their time
Datetime(t)  == [kind |-> "datetime", t |-> t]
IsoFormat(d) == [kind |-> "str", t |-> d.t]

InitContext ==
    /\ data_history = <<>>
    /\ historyRet = NoResult
    /\ storage_file = <<>>

\* json.dump of _make_serializable(data): every datetime becomes a string
_save_data(h) ==
    [i \in 1..Len(h) |-> [h[i] EXCEPT !.timestamp = IsoFormat(@)]]

\* entry_id is a fresh uuid4: the number of the call stands for it
add_history_entry(action_type) ==
    /\ Len(data_history) < MaxEntries
    /\ LET entry == [entry_id |-> Len(data_history) + 1,
                     timestamp |-> Datetime(clock),
                     action_type |-> action_type]
       IN  /\ data_history' = Append(data_history, entry)
           /\ storage_file' = _save_data(data_history')
    /\ UNCHANGED <<historyRet, srvVars, netVars, client, flagVars,
                   bridgeVars, errVars>>

\* a new manager is constructed on the same storage path: _load_data reads
\* the file, whose timestamps are strings
_load_data ==
    /\ storage_file # <<>>
    /\ data_history' = storage_file
    /\ historyRet' = NoResult
    /\ UNCHANGED <<storage_file, srvVars, netVars, client, flagVars,
                   bridgeVars, errVars>>

\* list.sort(key=timestamp, reverse=True): newest first, entries of equal
\* timestamp in the order they had (the sort is stable)
RECURSIVE SortByTimestamp(_)
SortByTimestamp(h) ==
    IF h = <<>> THEN <<>>
    ELSE LET m == CHOOSE i \in 1..Len(h) :
                      \A j \in 1..Len(h) :
                          \/ h[j].timestamp.t < h[i].timestamp.t
                          \/ h[j].timestamp.t = h[i].timestamp.t /\ i <= j
         IN  <<h[m]>> \o SortByTimestamp(
                 [k \in 1..(Len(h) - 1) |-> IF k < m THEN h[k] ELSE h[k + 1]])

\* the orders a list can be left in by a sort that raised
Rearranged(h) ==
    {[i \in 1..Len(h) |-> h[p[i]]] :
        p \in {q \in [1..Len(h) -> 1..Len(h)] :
                  \A a, b \in 1..Len(h) : a # b => q[a] # q[b]}}

\* limit and action_type count when they are truthy (not None, 0 or "");
\* a limit is <<n>>, and NoLimit stands for limit=None.
\* Without a filter the local `history` is the stored list itself, and sort() works
\* in place; a datetime and a str do not compare (TypeError)
get_design_history(limit, action_type) ==
    LET filters  == action_type \notin {None, ""}
        selected == IF filters
                    THEN SelectSeq(data_history,
                                   LAMBDA e : e.action_type = action_type)
                    ELSE data_history
        mixed    == \E i, j \in 1..Len(selected) :
                        selected[i].timestamp.kind # selected[j].timestamp.kind
        sorted   == SortByTimestamp(selected)
        cut      == IF limit \notin {NoLimit, <<0>>} /\ limit[1] < Len(sorted)
                    THEN SubSeq(sorted, 1, limit[1]) ELSE sorted
    IN  /\ IF mixed
           THEN /\ historyRet' = Raise("TypeError")
                /\ IF filters THEN data_history' = data_history
                   ELSE data_history' \in Rearranged(data_history)
           ELSE /\ historyRet' = Ret(cut)
                /\ data_history' = IF filters THEN data_history ELSE sorted
        /\ UNCHANGED <<storage_file, srvVars, netVars, client, flagVars,
                       bridgeVars, errVars>>

\* ------------------------------------------------------ the specifications
InitServer ==
    /\ running = FALSE
    /\ server_socket = "none"
    /\ client_connections = <<>>
    /\ srvApp = TRUE
    /\ loop = "none"
    /\ stopPc = "idle"
    /\ conn = [c \in 1..MaxConn |-> NoConn]
    /\ nextConn = 1
    /\ client = [k \in Clients |-> NewClient]

InitBridge ==
    /\ _mode = "unknown"
    /\ _initialized = FALSE
    /\ app = FALSE
    /\ design = FALSE
    /\ plugin_client = FALSE
    /\ bridgePc = IdlePc
    /\ bridgeRet = [op |-> "none", out |-> NoResult]
    /\ InitErrorHandler
    /\ InitContext

ServerThreads(behaviours) ==
    \/ \E bindOk \in BOOLEAN : start(bindOk)
    \/ stop
    \/ \E c \in 1..MaxConn : _run_server(c)
    \/ \E c \in 1..MaxConn, h \in behaviours, kept \in BOOLEAN :
           _handle_client(c, h, kept)
    \/ \E c \in 1..MaxConn : _handle_client_end(c)

ServerNext == ServerThreads(HostBehaviours)

\* the protocol: the server and two clients driven by their callers
Init ==
    /\ InitServer
    /\ InitBridge
    /\ PLUGIN_CLIENT_AVAILABLE = TRUE
    /\ FUSION_AVAILABLE = FALSE
    /\ ERROR_HANDLING_AVAILABLE = TRUE
    /\ error_handler = TRUE
    /\ use_plugin_mode = TRUE
    /\ max_history_size = MaxHistory

\* the calls a caller makes.  get_design_info has no params, so its request
\* is small; a request that is not dispatched is the same at every size
Calls ==
    {a \in [command : Commands,
            params : {None, "bad", "unencodable"},
            size : FrameSizes] :
        /\ a.command # "create_circle" => a.params = None
        /\ a.command # "create_circle" => a.size = SmallFrame}

ClientNext(k) ==
    \/ \E sendOk \in BOOLEAN : \E a \in Calls :
           send_command(k, a.command, a.params, a.size, sendOk)
    \/ \E sendOk \in BOOLEAN : test_connection_call(k, sendOk)
    \/ \E timeout \in BOOLEAN : send_command_return(k, timeout)

\* one client and the server
Next ==
    \/ ServerNext
    \/ ClientNext(BridgeClient)

Spec == Init /\ [][Next]_vars

\* the Bridge over its plugin client and the server
InitB ==
    /\ InitServer
    /\ InitBridge
    \* the three relative imports `from ..x import` succeed together (the
    \* package is imported as src.core) or fail together (as core)
    /\ PLUGIN_CLIENT_AVAILABLE \in BOOLEAN
    /\ ERROR_HANDLING_AVAILABLE = PLUGIN_CLIENT_AVAILABLE
    /\ error_handler = PLUGIN_CLIENT_AVAILABLE
    /\ FUSION_AVAILABLE \in BOOLEAN
    /\ use_plugin_mode \in BOOLEAN
    /\ max_history_size \in 1..MaxHistory

\* the inputs that make a difference for an operation in the current state:
\* an argument or a host behaviour the operation never reads has one value
ArgsFor(op) ==
    {a \in BridgeArgs :
        /\ op # "create_sketch" => a.plane = IdlePc.a.plane
        /\ op # "validate_operation" =>
               /\ a.operation_type = IdlePc.a.operation_type
               /\ a.sketch_name = IdlePc.a.sketch_name}

UsesDirect(op) ==
    IF op = "initialize"
    THEN ~(use_plugin_mode /\ PLUGIN_CLIENT_AVAILABLE) /\ FUSION_AVAILABLE
    ELSE /\ _mode = "direct"
         /\ op \in {"get_design_info", "get_component_hierarchy",
                     "create_sketch", "validate_operation", "refresh_design"}

DirectFor(op) ==
    IF ~UsesDirect(op) THEN {AnyDirect}
    ELSE {d \in DirectBehaviours :
            /\ d.fault = "late" =>
                   op \in {"initialize", "create_sketch", "validate_operation"}
            /\ ~(op \in {"validate_operation", "refresh_design"}
                 /\ d.fault # "none") => d.kw = {}
            /\ ~(op \in {"initialize", "refresh_design"}
                 /\ d.fault = "none") => d.product = "none"
            /\ ~(op = "validate_operation" /\ d.fault # "early") => ~d.found
            /\ ~(op = "validate_operation" /\ d.fault = "none" /\ d.found)
                   => ~d.profiles}

SizesFor(op) ==
    IF NeedsPlugin(op) /\ op \in {"create_sketch", "create_rectangle",
                                   "create_circle", "create_extrude"}
    THEN FrameSizes ELSE {SmallFrame}

SendOksFor(op) ==
    IF /\ NeedsPlugin(op) /\ op # "initialize"
       /\ is_connected(client[BridgeClient])
       /\ conn[client[BridgeClient].sock].srv = "closed"
    THEN BOOLEAN ELSE {TRUE}

\* under the Bridge the host answers, fails inside a handler, or has no
\* document open
BridgeHost ==
    {h \in HostBehaviours :
        /\ h.fault # "escapes" /\ h.product # "other"
        /\ h.serializable /\ h.size = SmallFrame}

NextB ==
    \/ ServerThreads(BridgeHost)
    \/ \E op \in BridgeOps : \E a \in ArgsFor(op), d \in DirectFor(op),
          size \in SizesFor(op), sendOk \in SendOksFor(op) :
           BridgeCall(op, a, d, size, sendOk)
    \/ send_command_return(BridgeClient, FALSE)

SpecB == InitB /\ [][NextB]_vars

\* with two clients the host answers, or a handler raises
ConcurrentHost ==
    {h \in HostBehaviours :
        /\ h.fault \in {"none", "escapes"} /\ h.product = "design"
        /\ h.serializable /\ h.size = SmallFrame}

\* two clients connected to the server at the same time
NextC ==
    \/ ServerThreads(ConcurrentHost)
    \/ \E k \in Clients, sendOk \in BOOLEAN,
          command \in {"get_design_info", "does_not_exist"} :
           send_command(k, command, None, SmallFrame, sendOk)
    \/ \E k \in Clients, sendOk \in BOOLEAN, kind \in {"garbage", "binary", "array"} :
           send_bytes(k, kind, sendOk)
    \/ \E k \in Clients : send_command_return(k, FALSE)

SpecC == Init /\ [][NextC]_vars

\* stop() interleaved with the accept loop and the handler threads
NextS ==
    \/ \E bindOk \in BOOLEAN : start(bindOk)
    \/ stop_begin
    \/ stop_end
    \/ \E c \in 1..MaxConn : _run_server(c)
    \/ _run_server_exit
    \/ \E c \in 1..MaxConn, h \in ConcurrentHost, kept \in BOOLEAN :
           _handle_client(c, h, kept)
    \/ \E c \in 1..MaxConn : _handle_client_end(c)
    \/ \E k \in Clients, sendOk \in BOOLEAN :
           send_command(k, "get_design_info", None, SmallFrame, sendOk)
    \/ \E k \in Clients : send_command_return(k, FALSE)

SpecS == Init /\ [][NextS]_vars

\* the server started more than once
NextA ==
    \/ \E bindOk \in BOOLEAN : start(bindOk)
    \/ \E bindOk \in BOOLEAN : start_again(bindOk)
    \/ stop
    \/ \E c \in 1..MaxConn : _run_server(c)
    \/ \E c \in 1..MaxConn : _run_server_replaced(c)
    \/ _run_server_exit
    \/ \E c \in 1..MaxConn, h \in ConcurrentHost, kept \in BOOLEAN :
           _handle_client(c, h, kept)
    \/ \E c \in 1..MaxConn : _handle_client_end(c)
    \/ \E k \in Clients, sendOk \in BOOLEAN :
           send_command(k, "get_design_info", None, SmallFrame, sendOk)
    \/ \E k \in Clients : send_command_return(k, FALSE)

SpecA == Init /\ [][NextA]_vars

\* ------------------------------------------------- properties of the Bridge
\* the operations that return a dict
\* the ErrorHandler on its own: handle_error called with errors of every kind
Messages == {<<"SOCKET">>, <<"sketch">>, <<"Invalid">>, <<"Path">>,
             <<"failed">>, <<"Path", "SOCKET">>, <<"Invalid", "sketch">>,
             <<"Path", "Invalid">>}

Errors ==
    {Exception(m) : m \in Messages} \cup
    {ValidationError(<<"Invalid">>),
     Fusion360Error(<<"SOCKET">>, "filesystem", "critical"),
     Fusion360Error(<<"failed">>, "network", "medium"),
     Fusion360Error(<<"Invalid">>, "config", "low")}

InitE ==
    /\ InitServer
    /\ InitBridge
    /\ PLUGIN_CLIENT_AVAILABLE = TRUE
    /\ FUSION_AVAILABLE = FALSE
    /\ ERROR_HANDLING_AVAILABLE = TRUE
    /\ error_handler = TRUE
    /\ use_plugin_mode = TRUE
    /\ max_history_size \in 0..MaxErrors

NextE == \E e \in Errors : handle_error_call(e)

SpecE == InitE /\ [][NextE]_vars

\* retry_with_backoff on an operation that fails a number of times
\* failing always: on more invocations than are ever made (one by the
\* wrapper, 19 by retry_with_backoff)
Always == 20

Funcs ==
    [fails : (0..MaxFails) \cup {Always},
     error : {PluginCommunicationError(<<"failed">>),
              FusionAPIError(<<"failed">>),
              Fusion360Error(<<"failed">>, "network", "medium"),
              ResourceError(<<"failed">>),
              ValidationError(<<"failed">>),
              Fusion360Error(<<"failed">>, "config", "low"),
              Exception(<<"failed">>)}]

NextR ==
    \/ \E func \in Funcs : retry_with_backoff(func)
    \/ retry_try
    \/ retry_sleep

SpecR == InitE /\ [][NextR]_vars

\* errors handled while time passes, or within one millisecond
NextI ==
    \/ \E e \in {Exception(<<"failed">>), ValidationError(<<"Invalid">>)} :
           handle_error_call(e)
    \/ tick

SpecI == InitE /\ [][NextI]_vars

\* threads sharing the handler
NextT ==
    \E t \in Threads :
        \/ handle_error_begin(t)
        \/ _add_to_history_check(t)
        \/ _add_to_history_slice(t)
        \/ _add_to_history_store(t)

SpecT == InitE /\ [][NextT]_vars

\* a function wrapped by error_handler_decorator
NextD ==
    \/ \E func \in Funcs : wrapper_call(func)
    \/ retry_try
    \/ retry_sleep
    \/ wrapper_return

SpecD == InitE /\ [][NextD]_vars

DictOps == BridgeOps \ {"initialize", "has_active_design", "refresh_design",
                        "cleanup"}

\* C1: with plugin mode preferred and the direct API unavailable,
\* initialize() never finishes without a mode chosen; when the plugin
\* connection is refused (no server was ever started) it returns true with
\* mode simulation, is_initialized and has_active_design true
C1_InitializeFallsBackToSimulation ==
    (bridgeRet.op = "initialize" /\ use_plugin_mode /\ ~FUSION_AVAILABLE) =>
        /\ bridgeRet.out = Ret(TRUE)
        /\ _mode # "unknown"
        /\ _initialized
        /\ server_socket = "none" =>
               /\ _mode = "simulation"
               /\ has_active_design(NoResult).ret = Ret(TRUE)

\* C2: initialize() tries Plugin, Direct, Simulation in this order and the
\* first that succeeds is selected; a failed attempt only moves on to the
\* next mode, so initialize() always ends with a mode selected, and with no
\* server to connect to and the direct API present the mode is direct or
\* (the API handle not acquired) simulation
C2_FailedAttemptMovesOn ==
    bridgeRet.op = "initialize" =>
        /\ bridgeRet.out.value = TRUE
        /\ _initialized
        /\ _mode \in {"plugin", "direct", "simulation"}
        /\ _mode = "direct" => FUSION_AVAILABLE /\ app
        /\ (FUSION_AVAILABLE /\ server_socket = "none") =>
               _mode \in {"direct", "simulation"}

\* C3: once initialize() has returned true with mode M (the only way the
\* mode leaves "unknown"), no operation changes the mode: not a failing
\* operation, not cleanup(), not another initialize()
C3_ModeIsStable == [][_mode # "unknown" => _mode' = _mode]_vars

\* plugin mode was selected, and a later initialize() failed
C3_Witness ==
    /\ _mode = "plugin"
    /\ bridgeRet.op = "initialize"
    /\ bridgeRet.out = Ret(FALSE)

\* C4: no public operation of the Bridge lets an exception out, in any mode
\* and any state: what the host API raises is returned as a value
C4_NoOperationRaises == ~bridgeRet.out.raised

\* the host API raised inside an operation in direct mode, and the operation
\* returned the error report
C4_Witness ==
    /\ _mode = "direct"
    /\ bridgeRet.op \in DictOps
    /\ HasKey(bridgeRet.out.value, "error")
    /\ bridgeRet.out.value.error = ErrTrue

\* C5: every result of a Bridge operation whose 'error' is truthy also
\* carries error_id, category and user_message, 'error' being the flag true
C5_ErrorResultsCarryReport ==
    (/\ bridgeRet.op \in DictOps
     /\ HasKey(bridgeRet.out.value, "error")
     /\ Truthy(bridgeRet.out.value.error)) =>
        /\ bridgeRet.out.value.error = ErrTrue
        /\ {"error_id", "category", "user_message"}
               \subseteq DOMAIN bridgeRet.out.value

\* ------------------------------------------------ properties of the protocol
UnableToConnect == Ret(ErrorDict(<<"Unable to connect to Fusion360 plugin">>))

\* o is the value the except clause of send_command returns
CommunicationError(o) ==
    /\ ~o.raised
    /\ HasKey(o.value, "error")
    /\ o.value.error.t = "str"
    /\ Contains(o.value.error.s, "Communication error: ")

\* o is a response read from the server
ServerResponse(o) ==
    /\ ~o.raised
    /\ o # NoResult
    /\ o # UnableToConnect
    /\ ~CommunicationError(o)

\* a caller starts a call on client k
CallStarts(k) == client[k].pc = "idle" /\ client'[k] # client[k]

\* the handler thread of connection c reads a request and handles it
HandlerStep(c) ==
    /\ conn[c].srv = "open" /\ conn[c].hnd = "run"
    /\ conn[c].req # <<>>
    /\ conn'[c].req = <<>>
    /\ UNCHANGED client_connections

\* a JSON object the protocol defines as a response
WellFormed(body) ==
    \/ body = [success |-> TRUE]
    \/ /\ DOMAIN body = {"error"}
       /\ body.error.t = "str"
       /\ body.error.s # <<>>

\* C6: after the peer has closed a connected client's socket, the very next
\* send_command connects anew before it writes; if the peer cannot be
\* reached the call returns the 'Unable to connect' error value
C6_ReconnectsAfterPeerClose ==
    [][\A k \in Clients :
          (/\ is_connected(client[k])
           /\ conn[client[k].sock].srv = "closed"
           /\ CallStarts(k)) =>
              /\ client'[k].sock # client[k].sock
              /\ client'[k].sock # 0
              /\ ~Listening => client'[k].ret = UnableToConnect]_vars

\* C7: when a write, read or decode step of send_command fails, the call
\* returns an error value, the client is left not connected with its socket
\* released, and the next call starts with connect(); when no step fails
\* the client stays connected; no call raises
C7_FailureLeavesDisconnected ==
    /\ [](\A k \in Clients :
            client[k].pc = "idle" =>
                /\ ~client[k].ret.raised
                /\ CommunicationError(client[k].ret) =>
                       /\ ~is_connected(client[k])
                       /\ ~client[k].connected
                       /\ client[k].sock = 0
                /\ ServerResponse(client[k].ret) =>
                       /\ is_connected(client[k])
                       /\ conn[client[k].sock].cli = "open")
    /\ [][\A k \in Clients :
            (CommunicationError(client[k].ret) /\ CallStarts(k)) =>
                IF Listening THEN nextConn' = nextConn + 1
                ELSE /\ client'[k].ret = UnableToConnect
                     /\ client'[k].sock = Unconnected]_vars

\* the response read was cut and did not decode: the call returned the error
\* value and left the client disconnected, the server still listening
C7_Witness ==
    \E k \in Clients :
        /\ client[k].pc = "idle"
        /\ client[k].ret = Ret(ErrorDict(<<"Communication error: ",
                                          "Unterminated string">>))
        /\ client[k].sock = 0
        /\ Listening

\* C8: test_connection() returns true exactly when its one get_design_info
\* round trip gave a response without 'error' or the 'No active product'
\* error; otherwise it returns false; it never raises
C8_TestConnection ==
    \A k \in Clients :
        (client[k].call = "test_connection" /\ client[k].pc = "idle") =>
            /\ ~client[k].ret.raised
            /\ client[k].tc <=>
                   \/ ~HasKey(client[k].ret.value, "error")
                   \/ client[k].ret = Ret(ErrorDict(<<"No active product">>))

\* the plugin answered that no product is active: the test succeeded
C8_Witness ==
    \E k \in Clients :
        /\ client[k].call = "test_connection"
        /\ client[k].pc = "idle"
        /\ client[k].ret = Ret(ErrorDict(<<"No active product">>))
        /\ client[k].tc

\* the recv of client k's waiting call returns what the server wrote
ReadsResponse(k) ==
    /\ client[k].pc = "recv"
    /\ conn[client[k].sock].resp # <<>>
    /\ client'[k].pc = "idle"

\* C9: for every command and params a client sends to the running server,
\* valid or not, the server writes exactly one well-formed response and the
\* client's call returns it as a value; the call never raises
C9_EveryRequestAnswered ==
    /\ [](\A k \in Clients : ~client[k].ret.raised)
    /\ [][/\ \A c \in 1..MaxConn :
              (HandlerStep(c) /\ conn[c].cli = "open") =>
                  /\ Len(conn'[c].resp) = 1
                  /\ WellFormed(Head(conn'[c].resp).body)
          /\ \A k \in Clients :
              ReadsResponse(k) =>
                  client'[k].ret = Ret(Head(conn[client[k].sock].resp).body)
         ]_vars

\* C9 (amended): for every command and params sent in a request of at most
\* 4096 bytes the server writes exactly one well-formed response; the
\* client's call returns it as a value when the response is itself at most
\* 4096 bytes, and a Communication-error value when it is larger; the call
\* never raises
C9_RequestWithinBufferAnswered ==
    /\ [](\A k \in Clients : ~client[k].ret.raised)
    /\ [][/\ \A c \in 1..MaxConn :
              (/\ HandlerStep(c)
               /\ conn[c].cli = "open"
               /\ Head(conn[c].req).size <= RECV_BUFFER) =>
                  /\ Len(conn'[c].resp) = 1
                  /\ WellFormed(Head(conn'[c].resp).body)
          /\ \A k \in Clients :
              ReadsResponse(k) =>
                  IF Head(conn[client[k].sock].resp).size <= RECV_BUFFER
                  THEN client'[k].ret =
                           Ret(Head(conn[client[k].sock].resp).body)
                  ELSE CommunicationError(client'[k].ret)
         ]_vars

\* a call with a command the server does not know returned the server's
\* error response
C9_Witness ==
    \E k \in Clients :
        /\ client[k].pc = "idle"
        /\ client[k].ret =
               Ret(ErrorDict(<<"Unknown command: ", "does_not_exist">>))

\* the response written when the handler of `command` raised
ExecutionFailed(body, command) ==
    \E msg \in ExcMsgs :
        body = ErrorDict(<<"Command '", command, "' execution failed: ", msg>>)

\* C10: when a command handler raises (the server answers that the
\* command's execution failed), the connection is kept open and is read
\* again, and every other connection and the server's own state are left
\* as they were
C10_HandlerFailureKeepsConnection ==
    [][\A c \in 1..MaxConn :
          (/\ HandlerStep(c)
           /\ conn'[c].resp # <<>>
           /\ ExecutionFailed(Head(conn'[c].resp).body,
                              Head(conn[c].req).command)) =>
              /\ conn'[c].srv = "open"
              /\ conn'[c].hnd = "run"
              /\ Len(conn'[c].resp) = 1
              /\ conn'[c].cli = conn[c].cli
              /\ \A d \in 1..MaxConn \ {c} : conn'[d] = conn[d]
              /\ UNCHANGED <<running, server_socket, client_connections>>
      ]_vars

\* a handler raised on one connection: the error response is on its way
\* and the connection is read again, while another client's connection is
\* open with a request waiting
C10_Witness ==
    \E c, d \in 1..MaxConn :
        /\ c # d
        /\ conn[c].srv = "open" /\ conn[c].hnd = "run"
        /\ conn[c].resp # <<>>
        /\ ExecutionFailed(Head(conn[c].resp).body, "get_design_info")
        /\ conn[d].srv = "open" /\ conn[d].cli = "open"
        /\ conn[d].req # <<>>

\* the request is a JSON object read whole whose command is a non-empty
\* name the dispatch table does not hold
UnknownCommand(frame) ==
    /\ frame.frame = "object" /\ frame.size <= RECV_BUFFER
    /\ frame.command \notin DispatchTable \cup {"", None}

\* C11: a request whose command is a non-empty name outside the dispatch
\* table is answered with exactly 'Unknown command: <name>', whatever the
\* host would do in a handler (none is called), and the connection stays
\* open and is read again
C11_UnknownCommand ==
    [][\A c \in 1..MaxConn :
          (HandlerStep(c) /\ UnknownCommand(Head(conn[c].req))) =>
              /\ conn'[c].srv = "open"
              /\ conn'[c].hnd = "run"
              /\ conn[c].cli = "open" =>
                     conn'[c].resp =
                         <<Frame(ErrorDict(<<"Unknown command: ",
                                             Head(conn[c].req).command>>),
                                 SmallFrame)>>
      ]_vars

\* the answer to an unknown command is on its way and the connection is
\* still served
C11_Witness ==
    \E c \in 1..MaxConn :
        /\ conn[c].resp = <<Frame(ErrorDict(<<"Unknown command: ",
                                              "does_not_exist">>), SmallFrame)>>
        /\ conn[c].srv = "open" /\ conn[c].hnd = "run"
        /\ conn[c].cli = "open"

\* C12: when the frame read is not parseable JSON the server writes one
\* 'JSON parse error' response (nothing when the peer is gone), closes the
\* connection and reads nothing more from it; the listening socket, the
\* accept loop's list and every other connection are left as they were
C12_ParseErrorClosesConnection ==
    [][\A c \in 1..MaxConn :
          (HandlerStep(c) /\ Head(conn[c].req).frame \in {"garbage", "binary"})
          =>  /\ conn'[c].srv = "closed"
              /\ conn'[c].hnd = "done"
              /\ conn'[c].resp =
                     IF conn[c].cli = "open"
                     THEN <<Frame(ErrorDict(<<"JSON parse error: ",
                                              "object is invalid">>),
                                  SmallFrame)>>
                     ELSE <<>>
              /\ \A d \in 1..MaxConn \ {c} : conn'[d] = conn[d]
              /\ UNCHANGED <<running, server_socket, client_connections>>
      ]_vars

\* C13: on one client at most one request is outstanding, and what a call
\* returns answers that call's own request: between two calls nothing is
\* left in the client's connection (a call that failed or timed out has
\* dropped its socket, so a late answer cannot be read by a later call),
\* and while a call waits its connection holds its request or the answer
\* to it, never both and never more than one
C13_OneRequestOutstanding ==
    /\ \A c \in 1..MaxConn : Len(conn[c].req) <= 1 /\ Len(conn[c].resp) <= 1
    /\ \A k \in Clients :
          /\ (client[k].pc = "idle" /\ is_connected(client[k])) =>
                 /\ conn[client[k].sock].req = <<>>
                 /\ conn[client[k].sock].resp = <<>>
          /\ client[k].pc = "recv" =>
                 /\ is_connected(client[k])
                 /\ conn[client[k].sock].cli = "open"
                 /\ ~(conn[client[k].sock].req # <<>>
                      /\ conn[client[k].sock].resp # <<>>)
    /\ \A c \in 1..MaxConn :
          (conn[c].req # <<>> \/ conn[c].resp # <<>>) =>
              \/ conn[c].cli = "closed"
              \/ \E k \in Clients : client[k].pc = "recv" /\ client[k].sock = c

\* a call timed out and dropped its socket with the request still unread by
\* the server; the next call waits on a new connection
C13_Witness ==
    \E k \in Clients, c \in 1..MaxConn :
        /\ client[k].pc = "recv"
        /\ client[k].sock > c
        /\ conn[c].cli = "closed"
        /\ conn[c].req # <<>>
        /\ conn[client[k].sock].req # <<>>

\* stop() has been called and has returned
StopReturned == stopPc = "idle" /\ server_socket = "closed"

\* C14: after stop() has returned, however it interleaved with the accept
\* loop and the handlers, the server is not running, every connection it
\* accepted is closed and is in no list, and none waits to be accepted
C14_StopClosesEverything ==
    StopReturned =>
        /\ ~running
        /\ client_connections = <<>>
        /\ \A c \in 1..MaxConn : conn[c].srv \notin {"open", "backlog"}

\* C15: stop() on a server that is already stopped (never started, start
\* failed, or stopped before) leaves it as it is: not running, no
\* connection in its list, no socket closed that was open; and two stop()
\* in a row leave what one leaves
C15_StopIdempotent ==
    /\ [](LET once == StopListening(StopConnections(ServerState))
          IN  StopListening(StopConnections(once)) = once)
    /\ [][(stop_begin /\ server_socket # "listening") =>
              /\ ~running /\ ~running'
              /\ client_connections = <<>>
              /\ UNCHANGED <<client_connections, conn>>]_vars
\* C16: after n handle_error calls on a handler with max_history_size = N the
\* history holds exactly min(n, N) records, the most recently handled ones in
\* the order of their handling (the oldest are evicted first)
C16_HistoryIsBoundedFifo ==
    LET n == Len(handle_calls)
        N == max_history_size
        m == IF n < N THEN n ELSE N
    IN  /\ Len(error_history) = m
        /\ \A i \in 1..m : error_history[i] = handle_calls[n - m + i].record

\* the keyword sets in the order of the claim, and the category of each
ClassifyOrder == <<"comm", "api", "val", "res">>
CategoryOf == [comm |-> "plugin_comm", api |-> "fusion_api",
               val |-> "validation", res |-> "resource"]

\* C17: a typed Fusion360Error keeps its category and severity; an untyped
\* exception gets the category of the first keyword set, in the order
\* communication, host API, validation, resource, that matches its
\* lower-cased message, and Unknown with severity Medium when none matches
C17_Classification ==
    \A i \in 1..Len(handle_calls) :
        LET e == handle_calls[i].error
            report == handle_calls[i].report
            matching == {j \in 1..Len(ClassifyOrder) :
                            ClassifyOrder[j] \in Matches(e.msg)}
        IN  IF e.typed
            THEN report.category = e.category /\ report.severity = e.severity
            ELSE IF matching = {}
            THEN report.category = "unknown" /\ report.severity = "medium"
            ELSE \E j \in matching :
                    /\ \A k \in matching : j <= k
                    /\ report.category = CategoryOf[ClassifyOrder[j]]

\* handled: an untyped error matching two sets, the later one first in the
\* message, and a typed error whose message matches a set too
C17_Witness ==
    /\ \E i \in 1..Len(handle_calls) :
          /\ handle_calls[i].error = Exception(<<"Invalid", "sketch">>)
          /\ handle_calls[i].report.category = "fusion_api"
    /\ \E i \in 1..Len(handle_calls) :
          /\ handle_calls[i].error.typed
          /\ Matches(handle_calls[i].error.msg) # {}
          /\ handle_calls[i].report.category = "filesystem"

\* C18: the 'recoverable' field of the report of handle_error is the
\* recoverable flag of the retry policy of the classified category: true for
\* plugin communication, host API, network, resource and config errors, false
\* for validation errors and for the categories without a policy
C18_RecoverableFollowsPolicy ==
    \A i \in 1..Len(handle_calls) :
        LET report == handle_calls[i].report
        IN  /\ report.category \in DOMAIN RetryStrategies =>
                  report.recoverable = RetryStrategies[report.category].recoverable
            /\ report.recoverable <=>
                  report.category \in {"plugin_comm", "fusion_api", "network",
                                       "resource", "config"}
            /\ report.category \in {"validation", "unknown", "filesystem"} =>
                  ~report.recoverable

\* handled: an error without a policy, a validation error and a config error
C18_Witness ==
    /\ \E i \in 1..Len(handle_calls) :
          /\ handle_calls[i].report.category = "filesystem"
          /\ ~handle_calls[i].report.recoverable
    /\ \E i \in 1..Len(handle_calls) :
          /\ handle_calls[i].report.category = "validation"
          /\ ~handle_calls[i].report.recoverable
    /\ \E i \in 1..Len(handle_calls) :
          /\ handle_calls[i].report.category = "config"
          /\ handle_calls[i].report.recoverable

\* max_retries of the policy of a category, 0 for a category without one
MaxRetries(category) ==
    IF category \in DOMAIN RetryStrategies
    THEN Get(RetryStrategies[category], "max_retries", 0)
    ELSE 0

\* the category of the failures of the operation being retried
FailureCategory == _classify_error(retry.func.error).category

\* C19: for an operation failing on every invocation with failures of
\* category C, retry_with_backoff invokes it exactly max_retries(C) + 1 times
\* and sleeps exactly max_retries(C) times before giving up (one invocation
\* and no sleep for a Validation failure)
C19_RetriesFollowCategory ==
    (retry.pc = "done" /\ retry.func.fails = Always) =>
        /\ retry.out.raised
        /\ retry.calls = MaxRetries(FailureCategory) + 1
        /\ Len(retry.sleeps) = MaxRetries(FailureCategory)

\* C20: an operation that fails on its first k invocations, k at most the
\* max_retries of the policy of its failures, and then succeeds is invoked
\* exactly k + 1 times with exactly k sleeps, the first of initial_delay;
\* retry_with_backoff returns the value of the successful invocation, raises
\* nothing and adds no record to the error history
C20_SucceedsWithinRetries ==
    (retry.pc = "done" /\ retry.func.fails <= MaxRetries(FailureCategory)) =>
        LET k == retry.func.fails
        IN  /\ retry.calls = k + 1
            /\ Len(retry.sleeps) = k
            /\ k > 0 => retry.sleeps[1] =
                    Get(RetryStrategies[FailureCategory], "initial_delay", 1000)
            /\ ~retry.out.raised
            /\ retry.out.value = "success"
            /\ error_history = <<>>
            /\ handle_calls = <<>>

\* C21: a function wrapped by error_handler_decorator never propagates an
\* exception; on success it returns the function's value and records nothing;
\* on a failure of a non-recoverable category the function is invoked once
\* and the error report (error true, recoverable false) is returned; on a
\* recoverable failure the function is retried and the value of a successful
\* retry or else the error report is returned
C21_DecoratorNeverRaises ==
    wrapper.pc = "done" =>
        LET func == retry.func
            recoverable == _is_recoverable(_classify_error(func.error))
        IN  /\ ~wrapper.out.raised
            /\ func.fails = 0 =>
                  /\ wrapper.returns = "value" /\ wrapper.out.value = "success"
                  /\ retry.calls = 1 /\ error_history = <<>>
            /\ (func.fails > 0 /\ ~recoverable) =>
                  /\ retry.calls = 1
                  /\ wrapper.returns = "report"
                  /\ wrapper.out.value.error
                  /\ ~wrapper.out.value.recoverable
            /\ (func.fails > 0 /\ recoverable) =>
                  /\ retry.calls > 1
                  /\ \/ wrapper.returns = "value" /\ ~retry.out.raised
                        /\ wrapper.out.value = "success"
                     \/ wrapper.returns = "report" /\ retry.out.raised
                        /\ wrapper.out.value.error
                        /\ wrapper.out.value.recoverable

\* a wrapped function that always fails with a recoverable error has returned
C21_Witness ==
    /\ wrapper.pc = "done"
    /\ retry.func.fails = Always
    /\ retry.out.raised
    /\ wrapper.returns = "report"
    /\ wrapper.out.value.category = "plugin_comm"

\* C22: when every attempt of retry_with_backoff fails, the final failure is
\* handled once, by one handle_error call after the last attempt, and the
\* exception of the last attempt is then re-raised
C22_FinalFailureHandledOnce ==
    (retry.pc = "done" /\ retry.out.raised) =>
        /\ Len(handle_calls) = 1
        /\ handle_calls[1].error = retry.func.error
        /\ retry.out.value = retry.func.error

\* C23: the records of one ErrorHandler have pairwise distinct error_id
\* values, also when errors are handled within the same millisecond, and the
\* error_id of each returned report identifies exactly one record
C23_ErrorIdsAreUnique ==
    /\ \A i, j \in 1..Len(error_history) :
          i # j => error_history[i].error_id # error_history[j].error_id
    /\ \A i, j \in 1..Len(handle_calls) :
          i # j => handle_calls[i].report.error_id # handle_calls[j].record.error_id

\* C24: when several threads call handle_error on one handler, once all
\* calls have returned the history holds at most max_history_size records and
\* is the one some sequential order of the calls produces (an order in which
\* a call that returned before another began comes first): the last
\* max_history_size records of that order, so that nothing is lost other
\* than by FIFO eviction
C24_ConcurrentHistoryIsSequential ==
    (max_history_size >= 1 /\ \A t \in Threads : handlers[t].pc = "idle") =>
        LET n == Len(handle_calls)
            m == IF n < max_history_size THEN n ELSE max_history_size
        IN  /\ Len(error_history) = m
            /\ \E order \in [1..n -> 1..n] :
                  /\ \A i, j \in 1..n : i # j => order[i] # order[j]
                  /\ \A i, j \in 1..n :
                        order[i] \in handle_calls[order[j]].after => i < j
                  /\ \A i \in 1..m :
                        error_history[i] = handle_calls[order[n - m + i]].record

\* C25: start() on a server that is listening leaves it listening on its
\* original socket, which the accept loop goes on using, and a later stop()
\* closes that socket: after stop() has returned no socket of the server
\* listens and no thread waits in accept()
C25_SecondStartKeepsListening ==
    /\ [][\A bindOk \in BOOLEAN : start_again(bindOk) =>
              /\ server_socket' = "listening"
              /\ loop' = "accept"]_vars
    /\ [](StopReturned => ~Listening /\ loop \in {"none", "exit", "accept"})

\* C26: a Bridge whose mode is still 'unknown' (initialize() has not
\* succeeded) does not answer as if it were operational: its operations
\* return no success result and has_active_design is not true
C26_UninitializedDoesNotAnswer ==
    (_mode = "unknown" /\ ~_initialized) =>
        /\ bridgeRet.op = "has_active_design" => bridgeRet.out # Ret(TRUE)
        /\ bridgeRet.op \in DictOps \ {"validate_operation"} =>
              ~HasKey(bridgeRet.out.value, "success")

\* C27: after cleanup() of a plugin-mode bridge the plugin connection stays
\* closed: the next Bridge operation, unless it is initialize(), opens no
\* connection and sends no command
C27_CleanupKeepsClosed ==
    [][(/\ bridgeRet.op = "cleanup" /\ _mode = "plugin"
        /\ bridgePc.op = "idle" /\ client[BridgeClient].pc = "idle")
       => \/ bridgePc'.op = "initialize" \/ bridgeRet'.op = "initialize"
          \/ /\ nextConn' = nextConn
             /\ client'[BridgeClient].pc = "idle"
             /\ ~is_connected(client'[BridgeClient])]_vars

\* ------------------------------------------- the tool layer and the add-in
\* command names the tools of mcp_server.py pass to
\* fusion_bridge.send_command
ToolCommands ==
    {"create_sketch", "draw_line", "create_rectangle", "create_circle",
     "draw_arc", "draw_polygon", "get_sketches",
     "add_geometric_constraint", "add_dimensional_constraint",
     "create_extrude", "create_revolve", "create_sweep", "create_loft",
     "create_fillet", "create_chamfer", "create_shell", "boolean_operation",
     "split_body", "create_pattern_rectangular", "create_pattern_circular",
     "create_mirror", "create_component", "insert_component_from_file",
     "get_assembly_info", "create_mate_constraint", "create_joint",
     "create_motion_study", "check_interference", "create_exploded_view",
     "animate_assembly", "measure_area", "measure_volume",
     "calculate_mass_properties", "create_section_analysis",
     "perform_stress_analysis", "perform_modal_analysis",
     "perform_thermal_analysis", "create_parameter", "get_design_info",
     "get_features"}

\* command names the convenience methods of the plugin client send
PluginClientCommands ==
    {"get_design_info", "get_component_hierarchy", "create_sketch",
     "create_rectangle", "create_circle", "create_extrude", "get_sketches",
     "get_features"}

\* a tool or a client method sends its command to the running add-in, which
\* answers it
NextM ==
    \/ \E bindOk \in BOOLEAN : start(bindOk)
    \/ \E c \in 1..MaxConn : _run_server(c)
    \/ \E c \in 1..MaxConn, h \in ConcurrentHost, kept \in BOOLEAN :
           _handle_client(c, h, kept)
    \/ \E c \in 1..MaxConn : _handle_client_end(c)
    \/ \E command \in ToolCommands \cup PluginClientCommands :
           send_command(2, command, "ok", SmallFrame, TRUE)
    \/ send_command_return(2, FALSE)

SpecM == Init /\ [][NextM]_vars

\* C28: every command name the tool layer or the plugin client sends is in
\* the dispatch of the add-in server; none is answered 'Unknown command'
C28_SentCommandsAreDispatched ==
    \A k \in Clients :
        \A command \in ToolCommands \cup PluginClientCommands :
            /\ (client[k].pc = "recv" /\ is_connected(client[k])
                 /\ conn[client[k].sock].req # <<>>
                 /\ conn[client[k].sock].req[1].command = command)
                => command \in DispatchTable
            /\ client[k].ret # Ret(ErrorDict(<<"Unknown command: ",
                                               command>>))

\* C29: while no stop() is under way, client_connections holds exactly the
\* accepted connections that are still open: a connection whose handler
\* has ended (and closed its socket) is no longer in the list
C29_ListHoldsOpenConnections ==
    stopPc = "idle" =>
        \A c \in 1..MaxConn :
            (\E i \in 1..Len(client_connections) : client_connections[i] = c)
                <=> (conn[c].srv = "open" /\ conn[c].hnd = "run")

\* the activity log: entries are added, read, time passes, and the manager
\* is constructed again on the file it wrote
NextP ==
    \/ \E action_type \in ActionTypes : add_history_entry(action_type)
    \/ \E limit \in {NoLimit, <<0>>, <<1>>, <<2>>},
          action_type \in ActionTypes \cup {None} :
           get_design_history(limit, action_type)
    \/ _load_data
    \/ tick

SpecP == Init /\ [][NextP]_vars

\* C30: get_design_history is a pure read of the append-only activity log:
\* a step that adds no entry leaves the order of the stored history as it
\* was, and the stored entries are in the order of their add_history_entry
\* calls
C30_GetHistoryIsPureRead ==
    /\ [][Len(data_history') = Len(data_history) =>
            [i \in 1..Len(data_history) |-> data_history'[i].entry_id]
                = [i \in 1..Len(data_history) |-> data_history[i].entry_id]]_vars
    /\ [](\A i, j \in 1..Len(data_history) :
              i < j => data_history[i].entry_id < data_history[j].entry_id)

====
